---- MODULE Spec2Model ----
(***************************************************************************)
(* A model of the audio engine's real-time analysis pipeline:              *)
(*   - analysis.FFTProcessor and its workspace RWMutex (src/unnamed/part_015) *)
(*   - udp.UDPSender (src/internal/transport/udp/sender.go)                *)
(*   - udp.UDPPublisher (src/internal/transport/udp/publisher.go)          *)
(*   - audio.Engine (src/internal/audio/engine.go)                         *)
(*                                                                         *)
(* Numbers.  Samples are small integers standing for int32 samples; a      *)
(* workspace value v stands for the float64 v * 2^-31 / 100: the factor    *)
(* 2^-31 is normFactor and 1/100 the unit of the window coefficients,      *)
(* which are kept as integer hundredths.                                   *)
(***************************************************************************)
EXTENDS Integers, Sequences, FiniteSets, TLC

\* ---------------------------------------------------------------- bounds
\* FFT sizes of the concurrent specifications are 2^1 .. 2^MaxLogFft.
MaxLogFft == 1
\* Number of Process calls the audio callback makes in one behaviour.
MaxFrames == 2

\* Number of goroutines Start may spawn in one behaviour.
MaxSpawn == 2
\* Number of ticks the publisher goroutines handle in one behaviour.
MaxTicks == 2
\* The same for a publisher that is driven by the engine.
MaxEngTicks == 1
\* Number of Start / Stop calls the application threads make on the publisher.
MaxPubOps == 3
\* Number of StartInputStream / StopInputStream / Close calls made on the engine.
MaxEngOps == 3
\* The packet layout is computed for the FFT sizes 2^1 .. 2^MaxLogPacketFft.
MaxLogPacketFft == 17

None == "none"
\* The holder of a mutex nobody holds.
Nobody == <<"nobody", 0>>
\* The argument of SetGateThreshold before its first call.
NoRatio == <<"none", 0>>

\* ------------------------------------------------------------- processes
\* Application readers of the FFT processor (GetMagnitudes / GetMagnitudesInto).
AppReaders == {<<"r", 1>>, <<"r", 2>>}
\* Application threads that call Send and Close on a UDPSender directly.
SndThreads == {<<"s", 1>>, <<"s", 2>>}
\* Application threads that call Start and Stop on a UDPPublisher directly.
PubThreads == {<<"t", 1>>, <<"t", 2>>}
\* The publisher goroutines: one identity per goroutine ever spawned.
Goroutines == {<<"g", i>> : i \in 1..MaxSpawn}
\* Every process that may read the FFT processor / use the sender / drive the
\* publisher.
Readers == AppReaders \cup Goroutines
\* Application threads that call the engine.
EngThreads == {<<"e", 1>>, <<"e", 2>>}
SndCallers == SndThreads \cup Goroutines \cup EngThreads
PubCallers == PubThreads \cup EngThreads

VARIABLES
    \* ---- analysis.FFTProcessor
    fftSize,      \* FFTProcessor.fftSize
    window,       \* workspace.window (hundredths)
    wsInput,      \* workspace.input
    fftOutput,    \* workspace.fftOutput, a sequence of <<re, im>>
    magnitude,    \* workspace.magnitude
    wsWriter,     \* workspace.mu: TRUE while the write lock is held
    wsPending,    \* workspace.mu: TRUE while a writer waits in Lock()
    wsReaders,    \* workspace.mu: the readers holding the read lock
    cbPc,         \* position of the audio callback inside Process
    cbBuf,        \* Process: inputBuffer
    cbIdx,        \* Process: index of the magnitude loop
    nProcess,     \* number of Process calls made so far
    frames,       \* history: the magnitude arrays of the completed Process calls
    rdPc,         \* position of each reader
    rdOp,         \* which operation each reader runs
    rdDest,       \* the reader's destination slice (dest / magCopy)
    rdIdx,        \* copy(): next index to copy
    rdErr,        \* the error GetMagnitudesInto returned
    \* ---- audio.Engine: the audio callback and the noise gate
    inputChannels,\* config.Audio.InputChannels
    gateEnabled,  \* Engine.gateEnabled
    gateThreshold,\* Engine.gateThreshold (int32)
    threshold,    \* SetGateThreshold: the argument of the last call
    cbIn,         \* processInputStream: the buffer the host delivered last
    nCallbacks,   \* number of processInputStream calls made so far
    processors,   \* Engine.processors: the names of the chain's processors
    closables,    \* Engine.closables
    rgPc,         \* position of the thread inside RegisterProcessor
    rgProc,       \* RegisterProcessor: processor
    cbChain,      \* processInputStream: the slice the range loop iterates over
    cbAt,         \* processInputStream: the next element of it, 0 outside a callback
    \* ---- audio.Engine: recording (recording.go)
    isRecording,  \* Engine.isRecording (int32, read and written atomically)
    wavEncoder,   \* Engine.wavEncoder: the file its encoder writes to, 0 for nil
    outputFile,   \* Engine.outputFile: a file identity, 0 for nil
    rcPc,         \* position of the thread inside StartRecording / StopRecording
    rcOp,         \* the operation it runs
    rcRes,        \* the value the call returns: "nil" or an error
    nFiles,       \* number of files created so far
    nRecOps,      \* number of StartRecording / StopRecording calls made so far
    \* ---- the gate's peak loop (TestGateDetection)
    gdBuffer,     \* tt.buffer: int32 samples
    gdI,          \* i: the next sample of the loop
    gdMax,        \* maxAmplitude
    \* ---- bitint: one call of NextPowerOfTwo / NextPowerOfTwo32 / NextPowerOfTwo64
    p2Fn,         \* the function called and the platform's int width
    p2Size,       \* size
    p2Out,        \* the value returned, <<>> before the call returns
    \* ---- one call of analysis.NewFFTProcessor
    nfSize,       \* fftSize
    nfRate,       \* sampleRate
    nfRes,        \* the processor and the error returned, <<>> before
    \* ---- one call of audio.NewEngine
    neConfig,     \* config: the fields NewEngine reads
    neRes,        \* the engine and the error returned, <<>> before
    \* ---- udp.UDPSender
    sndClosed,    \* UDPSender.closed
    sndConn,      \* UDPSender.conn: "conn" or None (nil)
    sndMu,        \* UDPSender.mu: its holder, or Nobody
    sockOpen,     \* the operating system's socket is open
    sockCloses,   \* number of conn.Close() calls made on the socket
    sockWrites,   \* number of conn.Write() calls made
    sockBadWrites,\* number of them made on a closed socket or a nil connection
    sdPc,         \* position of each caller inside Send / Close
    sdOp,         \* the operation the caller runs: "Send" or "Close"
    sdData,       \* Send: data
    sdErr,        \* Send: err of conn.Write; Close: err of conn.Close
    sdRes,        \* the value the call returned
    sdWrote,      \* number of datagram writes this call made
    sdAfterClose, \* the call began after some Close had returned
    sdLog,        \* Send: the levels of the log entries the call wrote
    sndDebug,     \* UDPSender.debug
    logLevel,     \* log.currentLevel
    closeReturned,\* some Close call has returned
    nSndOps,      \* number of Send / Close calls made by application threads
    \* ---- udp.UDPPublisher
    ticker,       \* UDPPublisher.ticker: a ticker identity, 0 for nil
    doneChan,     \* UDPPublisher.doneChan: a channel identity, 0 for nil
    stopOnce,     \* UDPPublisher.stopOnce: TRUE once its function has run
    wg,           \* UDPPublisher.wg: the WaitGroup counter
    pubMu,        \* UDPPublisher.mu: its holder, or Nobody
    sequenceNum,  \* UDPPublisher.sequenceNum (uint32)
    udpMagBuffer, \* UDPPublisher.udpMagBuffer
    udpF32Buffer, \* UDPPublisher.udpF32Buffer
    packetBuffer, \* UDPPublisher.packetBuffer: the packet last packed
    nTickers,     \* number of tickers / done channels created so far
    stoppedTickers, \* the tickers on which Stop() was called
    closedChans,  \* the done channels that were closed
    psPc,         \* position of each caller inside Start / Stop
    psOp,         \* the operation the caller runs: "Start" or "Stop"
    psLocal,      \* Start: the captured locals [ticker, doneChan]
    psAlive,      \* Stop: the goroutines alive when the call began
    nPubOps,      \* number of Start / Stop calls made by application threads
    gPc,          \* position of each publisher goroutine
    gLocal,       \* the goroutine's captured [ticker, doneChan]
    gSeq,         \* sequenceNum++: the value read, not yet written back
    nTicks,       \* number of ticks handled so far (also the wall clock)
    sent,         \* history: the packets handed to Send, in order
    \* ---- the packet layout of buildAndSendPacket as a function of its inputs
    pkFftSize,    \* the FFT size the processor was constructed with
    pkSeq,        \* p.sequenceNum at packing time
    pkTs,         \* timestamp
    pkHeader,     \* the first 14 bytes of the packet, <<>> before packing
    pkLen,        \* len(packetBytes)
    \* ---- audio.Engine
    streamActive, \* Engine.streamActive
    stream,       \* Engine.stream: a host stream identity, 0 for nil
    streamMu,     \* Engine.streamMu: its holder, or Nobody
    hostOpen,     \* the host streams that are open
    nStreams,     \* number of host streams opened so far
    hostStopped,  \* stream.Stop() was called and no stream was started since
    ePc,          \* position of each engine caller
    eOp,          \* "StartInputStream", "StopInputStream" or "Close"
    eRes,         \* the value the call returns: "nil" or an error
    eActive,      \* the value of streamActive the call saw under the lock
    eLog,         \* Close: the parts finished so far, in order: [what, err]
    eAfterClose,  \* the call began after some Close call had returned
    engClosed,    \* some Close call on the engine has returned
    nEngOps       \* number of engine calls made by application threads

\* The engine's callback and gate: only processInputStream and the gate
\* setters change them.
\* The processor chain: only RegisterProcessor changes the chain, only the
\* callback its own loop.
chainVars == <<processors, closables, rgPc, rgProc, cbChain, cbAt>>
\* The recorder: only StartRecording and StopRecording change it.
recVars == <<isRecording, wavEncoder, outputFile, rcPc, rcOp, rcRes, nFiles, nRecOps>>
cbkVars == <<inputChannels, gateEnabled, gateThreshold, threshold, cbIn, nCallbacks,
             chainVars, recVars>>
gdVars == <<gdBuffer, gdI, gdMax>>
p2Vars == <<p2Fn, p2Size, p2Out>>
nfVars == <<nfSize, nfRate, nfRes>>
neVars == <<neConfig, neRes>>
\* Single calls of the package's pure functions.
calcVars == <<gdVars, p2Vars, nfVars, neVars>>
cfgVars == <<fftSize, window, cbkVars, calcVars>>
wsVars == <<wsInput, fftOutput, magnitude>>
rwVars == <<wsWriter, wsPending, wsReaders>>
cbVars == <<cbPc, cbBuf, cbIdx, nProcess, frames>>
rdVars == <<rdPc, rdOp, rdDest, rdIdx, rdErr>>
fftVars == <<cfgVars, wsVars, rwVars, cbVars>>

sndState == <<sndClosed, sndConn, sndMu>>
sockVars == <<sockOpen, sockCloses, sockWrites, sockBadWrites>>
sdVars == <<sdPc, sdOp, sdData, sdErr, sdRes, sdWrote, sdAfterClose, sdLog, closeReturned, nSndOps>>
\* The sender's debug flag and the logger's level: set before the engine runs.
logCfg == <<sndDebug, logLevel>>
sndVars == <<sndState, sockVars, sdVars, logCfg>>

pubState == <<ticker, doneChan, stopOnce, wg, pubMu, nTickers, stoppedTickers,
              closedChans>>
pubData == <<sequenceNum, udpMagBuffer, udpF32Buffer, packetBuffer>>
psVars == <<psPc, psOp, psLocal, psAlive, nPubOps>>
gVars == <<gPc, gLocal, gSeq, nTicks, sent>>
pubVars == <<pubState, pubData, psVars, gVars>>

\* Everything outside the FFT processor and its readers.
pkVars == <<pkFftSize, pkSeq, pkTs, pkHeader, pkLen>>
engState == <<streamActive, stream, streamMu, hostOpen, nStreams, hostStopped>>
etVars == <<ePc, eOp, eRes, eActive, eLog, eAfterClose, engClosed, nEngOps>>
engVars == <<engState, etVars>>

notFFT == <<sndVars, pubVars, pkVars, engVars, calcVars>>
\* Everything outside the sender and its callers.
notSnd == <<fftVars, rdVars, pubVars, pkVars, engVars, logCfg>>
\* Everything outside the publisher.
notPub == <<fftVars, rdVars, sndVars, pkVars, engVars>>

vars == <<fftVars, rdVars, sndVars, pubVars, pkVars, engVars>>
\* The state of the engine's objects: everything but the single calls.
progVars == <<fftSize, window, cbkVars, wsVars, rwVars, cbVars, rdVars, sndVars,
              pubVars, pkVars, engVars>>

\* ------------------------------------------------------------ arithmetic
Abs(x) == IF x < 0 THEN -x ELSE x

RECURSIVE Pow2(_)
Pow2(k) == IF k = 0 THEN 1 ELSE 2 * Pow2(k - 1)

\* floor(sqrt(n)) for n >= 0
RECURSIVE ISqrtFrom(_, _)
ISqrtFrom(n, r) == IF (r + 1) * (r + 1) > n THEN r ELSE ISqrtFrom(n, r + 1)
ISqrt(n) == ISqrtFrom(n, 0)

Zeros(n) == [i \in 1..n |-> 0]

\* bitint.IsPowerOfTwo: n > 0 && (n & (n-1)) == 0.  n & (n-1) is zero exactly
\* when n has a single bit set, which is computed here by halving.
RECURSIVE SingleBit(_)
SingleBit(n) == IF n = 1 THEN TRUE
                ELSE IF n % 2 = 1 THEN FALSE
                ELSE SingleBit(n \div 2)
IsPowerOfTwo(n) == n > 0 /\ SingleBit(n)

\* ------------------------------------------------------------ FFT maths
\* gonum window.Hann / window.Hamming on an all-ones slice, in hundredths:
\* w[i] = a0 - a1*cos(2*pi*i/(n-1)); for n = 2 the cosine is 1 at both ends, for
\* n = 4 it is 1, -1/2, -1/2, 1.
CosTimes2(n, i) == IF n = 2 THEN 2
                   ELSE IF i = 1 \/ i = n THEN 2 ELSE -1
applyWindow(n, windowType) ==
    [i \in 1..n |->
        IF windowType = "Hann"
        THEN (100 - 50 * CosTimes2(n, i)) \div 2
        ELSE (108 - 46 * CosTimes2(n, i)) \div 2]

\* fourier.FFT.Coefficients for sequence lengths 2 and 4 (exact in integers):
\* X[k] = sum_j x[j] * exp(-2*pi*i*j*k/n), k = 0 .. n/2.
Coefficients(x) ==
    IF Len(x) = 2
    THEN << <<x[1] + x[2], 0>>, <<x[1] - x[2], 0>> >>
    ELSE << <<x[1] + x[2] + x[3] + x[4], 0>>,
            <<x[1] - x[3], x[4] - x[2]>>,
            <<x[1] - x[2] + x[3] - x[4], 0>> >>

\* cmplx.Abs, rounded down to the model's unit.
CAbs(c) == IF c[2] = 0 THEN Abs(c[1]) ELSE ISqrt(c[1] * c[1] + c[2] * c[2])

MagnitudeSize(n) == n \div 2 + 1

\* The input buffers the host hands to the callback: frames_per_buffer samples
\* of one channel (the engine passes frames_per_buffer as the FFT size).
Samples == {0, 1}
RECURSIVE SeqsOfLen(_, _)
SeqsOfLen(S, n) ==
    IF n = 0 THEN {<<>>}
    ELSE {Append(s, e) : s \in SeqsOfLen(S, n - 1), e \in S}
\* Silence, an impulse and a constant level.
Buffers(n) ==
    {b \in SeqsOfLen(Samples, n) :
        \/ \A i \in 1..n : b[i] = b[1]
        \/ b[1] = 1 /\ \A i \in 2..n : b[i] = 0}

\* ======================================================================
\* analysis.FFTProcessor
\* ======================================================================

\* NewFFTProcessor: the state of a processor built for fftSize n.
NewFFTProcessor(n, windowType) ==
    /\ IsPowerOfTwo(n)
    /\ fftSize = n
    /\ window = applyWindow(n, windowType)
    /\ wsInput = Zeros(n)
    /\ fftOutput = [i \in 1..MagnitudeSize(n) |-> <<0, 0>>]
    /\ magnitude = Zeros(MagnitudeSize(n))
    /\ wsWriter = FALSE
    /\ wsPending = FALSE
    /\ wsReaders = {}

\* sync.RWMutex.Lock returns once no reader and no writer holds the lock.
CanLock_NoWait == TRUE
CanLock == wsReaders = {} /\ ~wsWriter

\* sync.RWMutex.RLock returns once no writer holds or waits for the lock.
CanRLock == ~wsWriter /\ ~wsPending

\* Process, line 97: the callback calls p.workspace.mu.Lock().
Process_Enter(inputBuffer) ==
    /\ cbPc = "idle"
    /\ nProcess < MaxFrames
    /\ cbBuf' = inputBuffer
    /\ cbPc' = "lock"
    /\ wsPending' = TRUE
    /\ nProcess' = nProcess + 1
    /\ UNCHANGED <<fftSize, window, wsVars, wsWriter, wsReaders, cbIdx, frames,
                   rdVars, notFFT>>

\* Process called directly with a buffer of fftSize samples.
Process_Call ==
    /\ \E buf \in Buffers(fftSize) : Process_Enter(buf)
    /\ UNCHANGED cbkVars

\* Process called directly with a buffer of any length: none, fewer than
\* fftSize, fftSize, or more than fftSize samples.
AnyLengthBuffers(n) == UNION {SeqsOfLen(Samples, k) : k \in 0..(n + 1)}
Process_AnyLength ==
    /\ \E buf \in AnyLengthBuffers(fftSize) : Process_Enter(buf)
    /\ UNCHANGED cbkVars

\* Process called with a buffer that tells the calls apart: the k-th call is
\* handed a constant level of k, so that every frame has its own magnitudes.
LevelBuffer(k) == [i \in 1..fftSize |-> k]
Process_Level ==
    /\ Process_Enter(LevelBuffer(nProcess + 1))
    /\ UNCHANGED cbkVars

\* Process, line 97: Lock() returns.
Process_Lock ==
    /\ cbPc = "lock"
    /\ CanLock
    /\ wsWriter' = TRUE
    /\ wsPending' = FALSE
    /\ cbPc' = "window"
    /\ UNCHANGED <<cfgVars, wsVars, wsReaders, cbBuf, cbIdx, nProcess, frames,
                   rdVars, notFFT>>

\* Process, lines 100-108: the loop over range p.fftSize writes every
\* element of workspace.input, the windowed sample where the buffer has one
\* and zero where it has none (line 106).
WindowedInput_KeepStale(inputBuffer) ==
    [i \in 1..fftSize |->
        IF i <= Len(inputBuffer) THEN inputBuffer[i] * window[i] ELSE wsInput[i]]
WindowedInput(inputBuffer) ==
    [i \in 1..fftSize |->
        IF i <= Len(inputBuffer) THEN inputBuffer[i] * window[i] ELSE 0]

\* Process, lines 100-108: window, scale and zero-pad the input.
Process_Window ==
    /\ cbPc = "window"
    /\ wsInput' = WindowedInput(cbBuf)
    /\ cbPc' = "fft"
    /\ UNCHANGED <<cfgVars, fftOutput, magnitude, rwVars, cbBuf, cbIdx, nProcess,
                   frames, rdVars, notFFT>>

\* Process, line 111: the real-to-complex transform.
Process_FFT ==
    /\ cbPc = "fft"
    /\ fftOutput' = Coefficients(wsInput)
    /\ cbIdx' = 1
    /\ cbPc' = "mag"
    /\ UNCHANGED <<cfgVars, wsInput, magnitude, rwVars, cbBuf, nProcess, frames,
                   rdVars, notFFT>>

\* Process, lines 114-116: one iteration of the magnitude loop.
Process_Magnitude ==
    /\ cbPc = "mag"
    /\ cbIdx <= Len(fftOutput)
    /\ magnitude' = [magnitude EXCEPT ![cbIdx] = CAbs(fftOutput[cbIdx])]
    /\ cbIdx' = cbIdx + 1
    /\ UNCHANGED <<cfgVars, wsInput, fftOutput, rwVars, cbPc, cbBuf, nProcess,
                   frames, rdVars, notFFT>>

\* Process, line 120: Unlock(); the call is complete.
Process_Unlock ==
    /\ cbPc = "mag"
    /\ cbIdx > Len(fftOutput)
    /\ wsWriter' = FALSE
    /\ cbPc' = "idle"
    /\ frames' = frames \cup {magnitude}
    /\ UNCHANGED <<cfgVars, wsVars, wsPending, wsReaders, cbBuf, cbIdx, nProcess,
                   rdVars, notFFT>>

Process ==
    \/ Process_Call
    \/ Process_Lock
    \/ Process_Window
    \/ Process_FFT
    \/ Process_Magnitude
    \/ Process_Unlock

\* GetMagnitudes / GetMagnitudesInto is called.  GetMagnitudes allocates
\* magCopy itself (line 133); GetMagnitudesInto is handed dest by its caller.
Reader_Call(r, op, dest) ==
    /\ rdPc[r] = "idle"
    /\ rdOp' = [rdOp EXCEPT ![r] = op]
    /\ rdDest' = [rdDest EXCEPT ![r] = dest]
    /\ rdErr' = [rdErr EXCEPT ![r] = FALSE]
    /\ rdPc' = [rdPc EXCEPT ![r] = "rlock"]
    /\ UNCHANGED rdIdx

\* GetMagnitudes / GetMagnitudesInto, lines 128 and 143: RLock() returns.
Reader_RLock(r) ==
    /\ rdPc[r] = "rlock"
    /\ CanRLock
    /\ wsReaders' = wsReaders \cup {r}
    /\ rdPc' = [rdPc EXCEPT ![r] = "check"]
    /\ UNCHANGED <<cfgVars, wsVars, wsWriter, wsPending, cbVars, rdOp, rdDest,
                   rdIdx, rdErr, notFFT>>

\* GetMagnitudesInto, line 146: len(dest) != len(p.workspace.magnitude).
LengthMismatch_Never(dest) == FALSE
LengthMismatch(dest) == Len(dest) # Len(magnitude)

\* GetMagnitudesInto, lines 146-149: the length check; GetMagnitudes, line 133.
Reader_Check(r) ==
    /\ rdPc[r] = "check"
    /\ IF rdOp[r] = "GetMagnitudesInto" /\ LengthMismatch(rdDest[r])
       THEN /\ rdErr' = [rdErr EXCEPT ![r] = TRUE]
            /\ rdPc' = [rdPc EXCEPT ![r] = "unlock"]
            /\ UNCHANGED <<rdDest, rdIdx>>
       ELSE /\ rdDest' = [rdDest EXCEPT ![r] =
                            IF rdOp[r] = "GetMagnitudes"
                            THEN Zeros(Len(magnitude)) ELSE @]
            /\ rdIdx' = [rdIdx EXCEPT ![r] = 1]
            /\ rdPc' = [rdPc EXCEPT ![r] = "copy"]
            /\ UNCHANGED rdErr
    /\ UNCHANGED <<fftVars, rdOp, notFFT>>

\* copy(dest, p.workspace.magnitude), lines 134 and 151: one element.
Reader_Copy(r) ==
    /\ rdPc[r] = "copy"
    /\ rdIdx[r] <= Len(magnitude)
    /\ rdDest' = [rdDest EXCEPT ![r][rdIdx[r]] = magnitude[rdIdx[r]]]
    /\ rdIdx' = [rdIdx EXCEPT ![r] = @ + 1]
    /\ UNCHANGED <<fftVars, rdPc, rdOp, rdErr, notFFT>>

\* The deferred RUnlock(), lines 129 and 144; the call returns.
Reader_RUnlock(r) ==
    /\ IF rdPc[r] = "copy" THEN rdIdx[r] > Len(magnitude) ELSE rdPc[r] = "unlock"
    /\ wsReaders' = wsReaders \ {r}
    /\ rdPc' = [rdPc EXCEPT ![r] = "ret"]
    /\ UNCHANGED <<cfgVars, wsVars, wsWriter, wsPending, cbVars,
                   rdOp, rdDest, rdIdx, rdErr, notFFT>>

\* An application reader calls GetMagnitudes.
GetMagnitudes(r) ==
    /\ Reader_Call(r, "GetMagnitudes", <<>>)
    /\ UNCHANGED <<fftVars, notFFT>>

\* An application reader calls GetMagnitudesInto with a slice of its own,
\* of the right length or one too long or too short.
DestLens == {MagnitudeSize(fftSize) - 1, MagnitudeSize(fftSize),
             MagnitudeSize(fftSize) + 1}
GetMagnitudesInto(r) ==
    /\ \E n \in DestLens : Reader_Call(r, "GetMagnitudesInto", [i \in 1..n |-> 9])
    /\ UNCHANGED <<fftVars, notFFT>>

\* The caller takes the result and is ready for its next call.
Reader_Return(r) ==
    /\ rdPc[r] = "ret"
    /\ rdPc' = [rdPc EXCEPT ![r] = "idle"]
    /\ rdOp' = [rdOp EXCEPT ![r] = None]
    /\ rdDest' = [rdDest EXCEPT ![r] = <<>>]
    /\ rdIdx' = [rdIdx EXCEPT ![r] = 1]
    /\ rdErr' = [rdErr EXCEPT ![r] = FALSE]
    /\ UNCHANGED <<fftVars, notFFT>>

ReaderStep(r) ==
    \/ Reader_RLock(r)
    \/ Reader_Check(r)
    \/ Reader_Copy(r)
    \/ Reader_RUnlock(r)


\* ======================================================================
\* udp.UDPSender
\* ======================================================================

\* A byte slice is kept as a packet's two parts; the empty slice.
NoData == [header |-> <<>>, payload |-> <<>>]

SenderClosedErr == "UDP sender is closed"

\* Bound: number of Send / Close calls the application threads make.
MaxSndOps == 3

\* NewUDPSender, lines 138-143: a sender with a connected, open socket.
NewUDPSender ==
    /\ sndClosed = FALSE
    /\ sndConn = "conn"
    /\ sndMu = Nobody
    /\ sockOpen = TRUE
    /\ sockCloses = 0
    /\ sockWrites = 0
    /\ sockBadWrites = 0

InitSndCallers ==
    /\ sdPc = [c \in SndCallers |-> "idle"]
    /\ sdOp = [c \in SndCallers |-> None]
    /\ sdData = [c \in SndCallers |-> NoData]
    /\ sdErr = [c \in SndCallers |-> None]
    /\ sdRes = [c \in SndCallers |-> None]
    /\ sdWrote = [c \in SndCallers |-> 0]
    /\ sdAfterClose = [c \in SndCallers |-> FALSE]
    /\ sdLog = [c \in SndCallers |-> {}]
    /\ closeReturned = FALSE
    /\ nSndOps = 0

\* The outcomes of one datagram write on an open socket.
WriteResults == {"ok", "refused", "failed"}
\* The outcomes of closing the socket.
CloseResults == {"ok", "failed"}

\* Send is called with data (line 150); the caller is about to lock s.mu.
Send_Call(c, data) ==
    /\ sdPc[c] = "idle"
    /\ sdPc' = [sdPc EXCEPT ![c] = "sendLock"]
    /\ sdOp' = [sdOp EXCEPT ![c] = "Send"]
    /\ sdData' = [sdData EXCEPT ![c] = data]
    /\ sdErr' = [sdErr EXCEPT ![c] = None]
    /\ sdRes' = [sdRes EXCEPT ![c] = None]
    /\ sdWrote' = [sdWrote EXCEPT ![c] = 0]
    /\ sdAfterClose' = [sdAfterClose EXCEPT ![c] = closeReturned]
    /\ sdLog' = [sdLog EXCEPT ![c] = {}]
    /\ UNCHANGED <<sndState, sockVars, closeReturned, logCfg>>

\* sync.Mutex.Lock on s.mu returns once nobody holds it.
SndMuFree == sndMu = Nobody

\* Send, line 151: s.mu.Lock().
Send_Lock(c) ==
    /\ sdPc[c] = "sendLock"
    /\ SndMuFree
    /\ sndMu' = c
    /\ sdPc' = [sdPc EXCEPT ![c] = "sendCheck"]
    /\ UNCHANGED <<sdOp, sndClosed, sndConn, sockVars, sdData, sdErr, sdRes, sdWrote,
                   sdAfterClose, sdLog, closeReturned, nSndOps, notSnd>>

\* Send, line 153: the closed flag as Send reads it.
SendSeesClosed_Never == FALSE
SendSeesClosed == sndClosed

\* Send, lines 153-157: a closed sender returns the error at once.
Send_Check(c) ==
    /\ sdPc[c] = "sendCheck"
    /\ IF SendSeesClosed
       THEN /\ sndMu' = Nobody
            /\ sdRes' = [sdRes EXCEPT ![c] = SenderClosedErr]
            /\ sdPc' = [sdPc EXCEPT ![c] = "ret"]
       ELSE /\ sdPc' = [sdPc EXCEPT ![c] = "sendWrite"]
            /\ UNCHANGED <<sndMu, sdRes>>
    /\ UNCHANGED <<sdOp, sndClosed, sndConn, sockVars, sdData, sdErr, sdWrote,
                   sdAfterClose, sdLog, closeReturned, nSndOps, notSnd>>

\* Send, line 161: s.conn.Write(data).  A write on a nil connection or on a
\* closed socket fails.
Send_Write(c) ==
    /\ sdPc[c] = "sendWrite"
    /\ \E res \in (IF sndConn # None /\ sockOpen THEN WriteResults ELSE {"failed"}) :
          sdErr' = [sdErr EXCEPT ![c] = res]
    /\ sockWrites' = sockWrites + 1
    /\ sockBadWrites' = IF sndConn # None /\ sockOpen THEN sockBadWrites
                                                      ELSE sockBadWrites + 1
    /\ sdWrote' = [sdWrote EXCEPT ![c] = @ + 1]
    /\ sdPc' = [sdPc EXCEPT ![c] = "sendUnlock"]
    /\ UNCHANGED <<sdOp, sndState, sockOpen, sockCloses, sdData, sdRes, sdAfterClose, sdLog,
                   closeReturned, nSndOps, notSnd>>

\* Send, lines 165-199: nil after a successful write, the wrapped error
\* otherwise (connection refused included).
SendResult_Swallow(err) == IF err = "failed" THEN "failed to send UDP packet" ELSE "nil"
SendResult(err) == IF err = "ok" THEN "nil" ELSE "failed to send UDP packet"

\* log.LogLevel (logger.go, lines 15-21).
LevelDebug == 0
LevelInfo == 1
LevelWarn == 2
LevelError == 3
LevelFatal == 4
LogLevels == {LevelDebug, LevelInfo, LevelWarn, LevelError, LevelFatal}
\* shouldLog, logger.go lines 87-89.
shouldLog(level) == level >= logLevel
\* Debugf / Errorf, logger.go lines 94-98 and 115-119: the entries written.
Debugf == IF shouldLog(LevelDebug) THEN {LevelDebug} ELSE {}
Errorf == IF shouldLog(LevelError) THEN {LevelError} ELSE {}

\* Send, lines 165-194: a refused write is logged with Debugf when s.debug is
\* set and not at all otherwise; every other write error is logged with Errorf.
SendLog(err) ==
    IF err = "ok" THEN {}
    ELSE IF err = "refused" THEN (IF sndDebug THEN Debugf ELSE {})
    ELSE Errorf

\* NewUDPSender, line 142 (debug: debug), with the logger's level: the
\* program's defaults are debug off and LevelInfo (logger.go, line 71).
NewUDPSender_Debug(debug, level) ==
    /\ sndDebug = debug
    /\ logLevel = level

\* Send, lines 162-199: s.mu.Unlock(); the write error, wrapped, is returned.
Send_Unlock(c) ==
    /\ sdPc[c] = "sendUnlock"
    /\ sndMu' = IF sndMu = c THEN Nobody ELSE sndMu
    /\ sdRes' = [sdRes EXCEPT ![c] = SendResult(sdErr[c])]
    /\ sdLog' = [sdLog EXCEPT ![c] = SendLog(sdErr[c])]
    /\ sdPc' = [sdPc EXCEPT ![c] = "ret"]
    /\ UNCHANGED <<sdOp, sndClosed, sndConn, sockVars, sdData, sdErr, sdWrote,
                   sdAfterClose, closeReturned, nSndOps, notSnd>>

\* Close is called (line 205); the caller is about to lock s.mu.
Close_Call(c) ==
    /\ sdPc[c] = "idle"
    /\ sdPc' = [sdPc EXCEPT ![c] = "closeLock"]
    /\ sdOp' = [sdOp EXCEPT ![c] = "Close"]
    /\ sdData' = [sdData EXCEPT ![c] = NoData]
    /\ sdErr' = [sdErr EXCEPT ![c] = None]
    /\ sdRes' = [sdRes EXCEPT ![c] = None]
    /\ sdWrote' = [sdWrote EXCEPT ![c] = 0]
    /\ sdAfterClose' = [sdAfterClose EXCEPT ![c] = closeReturned]
    /\ sdLog' = [sdLog EXCEPT ![c] = {}]
    /\ UNCHANGED <<sndState, sockVars, closeReturned, logCfg>>

\* Close, line 206: s.mu.Lock().
Close_Lock(c) ==
    /\ sdPc[c] = "closeLock"
    /\ SndMuFree
    /\ sndMu' = c
    /\ sdPc' = [sdPc EXCEPT ![c] = "closeCheck"]
    /\ UNCHANGED <<sdOp, sndClosed, sndConn, sockVars, sdData, sdErr, sdRes, sdWrote,
                   sdAfterClose, sdLog, closeReturned, nSndOps, notSnd>>

\* Close, lines 210-216: an already closed sender returns nil; otherwise the
\* flag is set.
Close_Check(c) ==
    /\ sdPc[c] = "closeCheck"
    /\ IF sndClosed
       THEN /\ sndMu' = Nobody
            /\ sdRes' = [sdRes EXCEPT ![c] = "nil"]
            /\ sdPc' = [sdPc EXCEPT ![c] = "closeRet"]
            /\ UNCHANGED sndClosed
       ELSE /\ sndClosed' = TRUE
            /\ sdPc' = [sdPc EXCEPT ![c] = "closeConn"]
            /\ UNCHANGED <<sndMu, sdRes>>
    /\ UNCHANGED <<sdOp, sndConn, sockVars, sdData, sdErr, sdWrote, sdAfterClose, sdLog,
                   closeReturned, nSndOps, notSnd>>

\* Close, lines 219-237: the socket is closed, conn is set to nil, the deferred
\* Unlock runs and the close error, wrapped, is returned.
Close_Conn(c) ==
    /\ sdPc[c] = "closeConn"
    /\ IF sndConn # None
       THEN \E res \in CloseResults :
              /\ sockOpen' = FALSE
              /\ sockCloses' = sockCloses + 1
              /\ sndConn' = None
              /\ sdErr' = [sdErr EXCEPT ![c] = res]
              /\ sdRes' = [sdRes EXCEPT ![c] =
                    IF res = "ok" THEN "nil" ELSE "failed to close UDP connection"]
       ELSE /\ sdRes' = [sdRes EXCEPT ![c] = "nil"]
            /\ UNCHANGED <<sockOpen, sockCloses, sndConn, sdErr>>
    /\ sndMu' = IF sndMu = c THEN Nobody ELSE sndMu
    /\ sdPc' = [sdPc EXCEPT ![c] = "closeRet"]
    /\ UNCHANGED <<sdOp, sndClosed, sockWrites, sockBadWrites, sdData, sdWrote,
                   sdAfterClose, sdLog,
                   closeReturned, nSndOps, notSnd>>

\* Close returns to its caller.
Close_Return(c) ==
    /\ sdPc[c] = "closeRet"
    /\ closeReturned' = TRUE
    /\ sdPc' = [sdPc EXCEPT ![c] = "ret"]
    /\ UNCHANGED <<sdOp, sndState, sockVars, sdData, sdErr, sdRes, sdWrote,
                   sdAfterClose, sdLog, nSndOps, notSnd>>

SendStep(c) ==
    \/ Send_Lock(c)
    \/ Send_Check(c)
    \/ Send_Write(c)
    \/ Send_Unlock(c)

CloseStep(c) ==
    \/ Close_Lock(c)
    \/ Close_Check(c)
    \/ Close_Conn(c)
    \/ Close_Return(c)

\* An application thread calls Send, calls Close, or takes the result of its
\* finished call.
Payloads == {[header |-> <<>>, payload |-> <<1>>], [header |-> <<>>, payload |-> <<2>>]}
AppSend(c) ==
    /\ nSndOps < MaxSndOps
    /\ nSndOps' = nSndOps + 1
    /\ \E d \in Payloads : Send_Call(c, d)
    /\ UNCHANGED notSnd
AppClose(c) ==
    /\ nSndOps < MaxSndOps
    /\ nSndOps' = nSndOps + 1
    /\ Close_Call(c)
    /\ UNCHANGED notSnd
AppSndReturn(c) ==
    /\ sdPc[c] = "ret"
    /\ sdPc' = [sdPc EXCEPT ![c] = "idle"]
    /\ sdOp' = [sdOp EXCEPT ![c] = None]
    /\ sdData' = [sdData EXCEPT ![c] = NoData]
    /\ sdErr' = [sdErr EXCEPT ![c] = None]
    /\ sdRes' = [sdRes EXCEPT ![c] = None]
    /\ sdWrote' = [sdWrote EXCEPT ![c] = 0]
    /\ sdAfterClose' = [sdAfterClose EXCEPT ![c] = FALSE]
    /\ sdLog' = [sdLog EXCEPT ![c] = {}]
    /\ UNCHANGED <<sndState, sockVars, closeReturned, nSndOps, notSnd>>


\* ======================================================================
\* udp.UDPPublisher
\* ======================================================================

Uint16(n) == n % 65536

\* A uint32 is kept as its two 16-bit halves <<high, low>>.
Zero32 == <<0, 0>>
\* x + 1 in uint32 arithmetic.
Inc32(x) ==
    IF x[2] = 65535 THEN <<(x[1] + 1) % 65536, 0>> ELSE <<x[1], x[2] + 1>>
\* (b - a) in uint32 arithmetic.
Sub32(b, a) ==
    LET borrow == IF b[2] < a[2] THEN 1 ELSE 0
    IN  <<(b[1] - a[1] - borrow + 65536) % 65536, (b[2] - a[2] + 65536) % 65536>>

\* float32(v): v rounded to a 24-bit significand, ties to even.
RECURSIVE ShiftFor(_)
ShiftFor(a) == IF a < 16777216 THEN 0 ELSE 1 + ShiftFor(a \div 2)
F32(v) ==
    LET a == Abs(v)
        u == Pow2(ShiftFor(a))
        q == a \div u
        r == a % u
        m == IF 2 * r > u \/ (2 * r = u /\ q % 2 = 1) THEN q + 1 ELSE q
    IN  IF v < 0 THEN 0 - m * u ELSE m * u

\* binary.Write(buf, binary.BigEndian, v) for an unsigned v of n bytes.
RECURSIVE BigEndian(_, _)
BigEndian(v, n) ==
    IF n = 0 THEN <<>> ELSE Append(BigEndian(v \div 256, n - 1), v % 256)

\* binary.BigEndian.UintNN(bytes): what a receiver decodes.
RECURSIVE FromBigEndian(_)
FromBigEndian(b) ==
    IF Len(b) = 0 THEN 0
    ELSE FromBigEndian(SubSeq(b, 1, Len(b) - 1)) * 256 + b[Len(b)]

\* buildAndSendPacket, lines 196-209: the 14 header bytes for a float32 buffer
\* of n elements.
PacketHeader(seq, ts, n) ==
    BigEndian(seq[1], 2) \o BigEndian(seq[2], 2) \o BigEndian(ts, 8)
        \o BigEndian(Uint16(n), 2)

\* buildAndSendPacket, lines 199-214: the packet left in packetBuffer; the
\* payload holds 4 bytes for each float32.
Packet(seq, ts, f32) ==
    [header |-> PacketHeader(seq, ts, Len(f32)), payload |-> f32]
PacketLen(pkt) == Len(pkt.header) + 4 * Len(pkt.payload)
PacketSequence(pkt) ==
    <<FromBigEndian(SubSeq(pkt.header, 1, 2)), FromBigEndian(SubSeq(pkt.header, 3, 4))>>

\* NewUDPPublisher, lines 53-65: a publisher for the FFT processor.
NewUDPPublisher ==
    /\ ticker = 0
    /\ doneChan = 0
    /\ stopOnce = FALSE
    /\ wg = 0
    /\ pubMu = Nobody
    /\ sequenceNum = Zero32
    /\ udpMagBuffer = Zeros(fftSize \div 2 + 1)
    /\ udpF32Buffer = Zeros(fftSize \div 2 + 1)
    /\ packetBuffer = NoData
    /\ nTickers = 0
    /\ stoppedTickers = {}
    /\ closedChans = {}

\* Start's locals ticker and doneChan before they are assigned (0 for nil).
NoLocals == [ticker |-> 0, doneChan |-> 0]

InitPubCallers ==
    /\ psPc = [t \in PubCallers |-> "idle"]
    /\ psOp = [t \in PubCallers |-> None]
    /\ psLocal = [t \in PubCallers |-> NoLocals]
    /\ psAlive = [t \in PubCallers |-> {}]
    /\ nPubOps = 0
    /\ gPc = [g \in Goroutines |-> "none"]
    /\ gLocal = [g \in Goroutines |-> NoLocals]
    /\ gSeq = [g \in Goroutines |-> Zero32]
    /\ nTicks = 0
    /\ sent = <<>>

\* The goroutines that were spawned and have not returned.
Alive == {g \in Goroutines : gPc[g] \notin {"none", "exited"}}

\* sync.Mutex.Lock on p.mu returns once nobody holds it.
PubMuFree == pubMu = Nobody

\* Start is called (line 72).
Start_Call(t) ==
    /\ psPc[t] = "idle"
    /\ psPc' = [psPc EXCEPT ![t] = "startLock"]
    /\ psOp' = [psOp EXCEPT ![t] = "Start"]
    /\ UNCHANGED <<psLocal, psAlive>>

\* Start, line 75: the publisher counts as running while p.ticker is set.
StartSeesRunning == ticker # 0

\* Start, lines 73-90: under p.mu, return if already running, else create the
\* ticker and the done channel, reset stopOnce and capture both locals.
Start_Lock(t) ==
    /\ psPc[t] = "startLock"
    /\ PubMuFree
    /\ IF StartSeesRunning
       THEN /\ psPc' = [psPc EXCEPT ![t] = "ret"]
            /\ UNCHANGED <<ticker, doneChan, stopOnce, nTickers, psLocal>>
       ELSE /\ nTickers < MaxSpawn
            /\ nTickers' = nTickers + 1
            /\ ticker' = nTickers + 1
            /\ doneChan' = nTickers + 1
            /\ stopOnce' = FALSE
            /\ psLocal' = [psLocal EXCEPT ![t] =
                             [ticker |-> nTickers + 1, doneChan |-> nTickers + 1]]
            /\ psPc' = [psPc EXCEPT ![t] = "startAdd"]
    /\ UNCHANGED <<wg, pubMu, stoppedTickers, closedChans, pubData, psOp, psAlive,
                   nPubOps, gVars, notPub>>

\* Start, line 92: p.wg.Add(1).
Start_Add(t) ==
    /\ psPc[t] = "startAdd"
    /\ wg' = wg + 1
    /\ psPc' = [psPc EXCEPT ![t] = "startGo"]
    /\ UNCHANGED <<ticker, doneChan, stopOnce, pubMu, nTickers, stoppedTickers,
                   closedChans, pubData, psOp, psLocal, psAlive, nPubOps, gVars,
                   notPub>>

\* Start, lines 93-108: the go statement; Start returns.
Start_Go(t) ==
    /\ psPc[t] = "startGo"
    /\ LET g == <<"g", psLocal[t].ticker>> IN
          /\ gPc' = [gPc EXCEPT ![g] = "select"]
          /\ gLocal' = [gLocal EXCEPT ![g] = psLocal[t]]
    /\ psPc' = [psPc EXCEPT ![t] = "ret"]
    /\ UNCHANGED <<pubState, pubData, psOp, psLocal, psAlive, nPubOps, gSeq,
                   nTicks, sent, notPub>>

\* Stop is called (line 113).
Stop_Call(t) ==
    /\ psPc[t] = "idle"
    /\ psPc' = [psPc EXCEPT ![t] = "stopLock"]
    /\ psOp' = [psOp EXCEPT ![t] = "Stop"]
    /\ psAlive' = [psAlive EXCEPT ![t] = Alive]
    /\ UNCHANGED psLocal

\* Stop, lines 114-125: under p.mu, return nil if p.ticker is nil; else
\* stopOnce.Do begins and closes the done channel.
Stop_Lock(t) ==
    /\ psPc[t] = "stopLock"
    /\ PubMuFree
    /\ IF ticker = 0
       THEN /\ psPc' = [psPc EXCEPT ![t] = "ret"]
            /\ UNCHANGED <<pubMu, closedChans>>
       ELSE IF stopOnce
       THEN /\ psPc' = [psPc EXCEPT ![t] = "stopWait"]
            /\ UNCHANGED <<pubMu, closedChans>>
       ELSE /\ pubMu' = t
            /\ closedChans' = closedChans \cup {doneChan}
            /\ psPc' = [psPc EXCEPT ![t] = "stopTicker"]
    /\ UNCHANGED <<ticker, doneChan, stopOnce, wg, nTickers, stoppedTickers,
                   pubData, psOp, psLocal, psAlive, nPubOps, gVars, notPub>>

\* Stop, lines 126-130: p.ticker.Stop(), p.ticker = nil, the Once is done,
\* p.mu.Unlock().
Stop_Ticker(t) ==
    /\ psPc[t] = "stopTicker"
    /\ stoppedTickers' = stoppedTickers \cup {ticker}
    /\ ticker' = 0
    /\ stopOnce' = TRUE
    /\ pubMu' = Nobody
    /\ psPc' = [psPc EXCEPT ![t] = "stopWait"]
    /\ UNCHANGED <<doneChan, wg, nTickers, closedChans, pubData, psOp, psLocal,
                   psAlive, nPubOps, gVars, notPub>>

\* sync.WaitGroup.Wait returns once the counter is zero.
WaitDone == wg = 0

\* Stop, lines 134-136: p.wg.Wait() returns; Stop returns nil.
Stop_Wait(t) ==
    /\ psPc[t] = "stopWait"
    /\ WaitDone
    /\ psPc' = [psPc EXCEPT ![t] = "ret"]
    /\ UNCHANGED <<pubState, pubData, psOp, psLocal, psAlive, nPubOps, gVars,
                   notPub>>

PublisherStep(t) ==
    \/ Start_Lock(t)
    \/ Start_Add(t)
    \/ Start_Go(t)
    \/ Stop_Lock(t)
    \/ Stop_Ticker(t)
    \/ Stop_Wait(t)

\* The goroutine, lines 96-100: select takes a tick (a stopped ticker delivers
\* none) and buildAndSendPacket calls GetMagnitudesInto(p.udpMagBuffer), line 171.
G_Tick(g) ==
    /\ gPc[g] = "select"
    /\ gLocal[g].ticker \notin stoppedTickers
    /\ nTicks < (IF nEngOps > 0 THEN MaxEngTicks ELSE MaxTicks)
    /\ nTicks' = nTicks + 1
    /\ Reader_Call(g, "GetMagnitudesInto", udpMagBuffer)
    /\ gPc' = [gPc EXCEPT ![g] = "fetch"]
    /\ UNCHANGED <<fftVars, sndVars, pubState, pubData, psVars, gLocal, gSeq, sent,
                   pkVars, engVars>>

\* buildAndSendPacket, lines 172-189: on an error the tick is skipped; else the
\* magnitudes are in p.udpMagBuffer and are converted into p.udpF32Buffer.
G_Fetched(g) ==
    /\ gPc[g] = "fetch"
    /\ rdPc[g] = "ret"
    /\ IF rdErr[g]
       THEN /\ gPc' = [gPc EXCEPT ![g] = "select"]
            /\ UNCHANGED <<udpMagBuffer, udpF32Buffer>>
       ELSE /\ udpMagBuffer' = rdDest[g]
            /\ udpF32Buffer' = [i \in 1..Len(rdDest[g]) |-> F32(rdDest[g][i])]
            /\ gPc' = [gPc EXCEPT ![g] = "seqRead"]
    /\ rdPc' = [rdPc EXCEPT ![g] = "idle"]
    /\ rdOp' = [rdOp EXCEPT ![g] = None]
    /\ rdDest' = [rdDest EXCEPT ![g] = <<>>]
    /\ rdIdx' = [rdIdx EXCEPT ![g] = 1]
    /\ rdErr' = [rdErr EXCEPT ![g] = FALSE]
    /\ UNCHANGED <<fftVars, sndVars, pubState, sequenceNum, packetBuffer, psVars,
                   gLocal, gSeq, nTicks, sent, pkVars, engVars>>

\* buildAndSendPacket, line 194: p.sequenceNum++ reads the field ...
G_SeqRead(g) ==
    /\ gPc[g] = "seqRead"
    /\ gSeq' = [gSeq EXCEPT ![g] = sequenceNum]
    /\ gPc' = [gPc EXCEPT ![g] = "seqWrite"]
    /\ UNCHANGED <<pubState, pubData, psVars, gLocal, nTicks, sent, notPub>>

\* ... and writes the incremented value back (uint32 arithmetic).
G_SeqWrite(g) ==
    /\ gPc[g] = "seqWrite"
    /\ sequenceNum' = Inc32(gSeq[g])
    /\ gPc' = [gPc EXCEPT ![g] = "pack"]
    /\ UNCHANGED <<pubState, udpMagBuffer, udpF32Buffer, packetBuffer, psVars,
                   gLocal, gSeq, nTicks, sent, notPub>>

\* Stop has signalled the goroutine's shutdown: its done channel is closed
\* (line 125) and its ticker is stopped (line 126).
Signalled(g) ==
    /\ gLocal[g].doneChan \in closedChans
    /\ gLocal[g].ticker \in stoppedTickers

\* buildAndSendPacket, lines 195-227: the packet is packed from p.sequenceNum,
\* the wall clock and p.udpF32Buffer, and handed to p.sender.Send.
G_Pack(g) ==
    /\ gPc[g] = "pack"
    /\ LET pkt == Packet(sequenceNum, nTicks, udpF32Buffer) IN
          /\ packetBuffer' = pkt
          /\ Send_Call(g, pkt)
          /\ sent' = Append(sent, [pkt |-> pkt, g |-> g, session |-> nTickers,
                                 stopped |-> hostStopped])
    /\ gPc' = [gPc EXCEPT ![g] = "send"]
    /\ UNCHANGED <<fftVars, rdVars, nSndOps, pubState, sequenceNum, udpMagBuffer,
                   udpF32Buffer, psVars, gLocal, gSeq, nTicks, pkVars, engVars>>

\* buildAndSendPacket, lines 228-236: Send has returned; its error is dropped
\* and the goroutine is back at the select.
G_Sent(g) ==
    /\ gPc[g] = "send"
    /\ sdPc[g] = "ret"
    /\ sdPc' = [sdPc EXCEPT ![g] = "idle"]
    /\ sdOp' = [sdOp EXCEPT ![g] = None]
    /\ sdData' = [sdData EXCEPT ![g] = NoData]
    /\ sdErr' = [sdErr EXCEPT ![g] = None]
    /\ sdRes' = [sdRes EXCEPT ![g] = None]
    /\ sdWrote' = [sdWrote EXCEPT ![g] = 0]
    /\ sdAfterClose' = [sdAfterClose EXCEPT ![g] = FALSE]
    /\ sdLog' = [sdLog EXCEPT ![g] = {}]
    /\ gPc' = [gPc EXCEPT ![g] = "select"]
    /\ UNCHANGED <<fftVars, rdVars, sndState, sockVars, logCfg, closeReturned, nSndOps,
                   pubState, pubData, psVars, gLocal, gSeq, nTicks, sent, pkVars,
                   engVars>>

\* The goroutine, lines 101-104 and 94: select takes the closed done channel,
\* the goroutine returns and the deferred p.wg.Done() runs.
G_Done(g) ==
    /\ gPc[g] = "select"
    /\ gLocal[g].doneChan \in closedChans
    /\ gPc' = [gPc EXCEPT ![g] = "exited"]
    /\ wg' = wg - 1
    /\ UNCHANGED <<ticker, doneChan, stopOnce, pubMu, nTickers, stoppedTickers,
                   closedChans, pubData, psVars, gLocal, gSeq, nTicks, sent, notPub>>

GoroutineStep(g) ==
    \/ G_Tick(g)
    \/ G_Fetched(g)
    \/ G_SeqRead(g)
    \/ G_SeqWrite(g)
    \/ G_Pack(g)
    \/ G_Sent(g)
    \/ G_Done(g)

\* An application thread calls Start, calls Stop, or takes the result of its
\* finished call.
AppStartWithin(t, max) ==
    /\ nPubOps < max
    /\ nPubOps' = nPubOps + 1
    /\ Start_Call(t)
    /\ UNCHANGED <<pubState, pubData, gVars, notPub>>
AppStart(t) == AppStartWithin(t, MaxPubOps)
AppStopWithin(t, max) ==
    /\ nPubOps < max
    /\ nPubOps' = nPubOps + 1
    /\ Stop_Call(t)
    /\ UNCHANGED <<pubState, pubData, gVars, notPub>>
AppStop(t) == AppStopWithin(t, MaxPubOps)
AppPubReturn(t) ==
    /\ psPc[t] = "ret"
    /\ psPc' = [psPc EXCEPT ![t] = "idle"]
    /\ psOp' = [psOp EXCEPT ![t] = None]
    /\ psLocal' = [psLocal EXCEPT ![t] = NoLocals]
    /\ psAlive' = [psAlive EXCEPT ![t] = {}]
    /\ UNCHANGED <<pubState, pubData, nPubOps, gVars, notPub>>


\* ------------------------------------------- the packet as a pure function
\* Outside the packet specification nothing is packed here.
InitNoPacket ==
    /\ pkFftSize = 2
    /\ pkSeq = Zero32
    /\ pkTs = 0
    /\ pkHeader = <<>>
    /\ pkLen = 0

\* The FFT sizes NewFFTProcessor accepts, up to 2^MaxLogPacketFft.
PacketFftSizes == {n \in {Pow2(k) : k \in 1..MaxLogPacketFft} : IsPowerOfTwo(n)}
PacketSeqs == {<<0, 1>>, <<0, 65535>>, <<1, 0>>, <<65535, 65535>>}
PacketTimes == {0, 1, 256}

\* buildAndSendPacket, lines 191-219, on the buffers NewUDPPublisher allocated
\* (lines 53, 60-61) for a processor of size pkFftSize.
PackPacket ==
    /\ pkHeader = <<>>
    /\ LET pkt == Packet(pkSeq, pkTs, Zeros(pkFftSize \div 2 + 1)) IN
          /\ pkHeader' = pkt.header
          /\ pkLen' = PacketLen(pkt)
    /\ UNCHANGED <<pkFftSize, pkSeq, pkTs, fftVars, rdVars, sndVars, pubVars, engVars>>

\* ======================================================================
\* audio.Engine
\* ======================================================================

\* NewEngine, lines 96, 110 and 124 with RegisterProcessor, line 149: e.closables
\* in registration order.
Closables_Reversed == <<"publisher", "sender", "fft">>
Closables == <<"fft", "sender", "publisher">>

\* A processor handed to RegisterProcessor: its name, and whether its type has
\* a Close method.  NoProc stands for no processor.
NoProc == [name |-> "", closable |-> FALSE]

\* NewEngine, lines 66-73: no stream, not active; lines 96-124: the FFT
\* processor is the chain, and it, the sender and the publisher are the
\* closables.
NewEngine ==
    /\ processors = <<"fft">>
    /\ closables = Closables
    /\ rgPc = "idle"
    /\ rgProc = NoProc
    /\ cbChain = <<>>
    /\ cbAt = 0
    /\ isRecording = 0
    /\ wavEncoder = 0
    /\ outputFile = 0
    /\ rcPc = "idle"
    /\ rcOp = None
    /\ rcRes = None
    /\ nFiles = 0
    /\ nRecOps = 0
    /\ streamActive = FALSE
    /\ stream = 0
    /\ streamMu = Nobody
    /\ hostOpen = {}
    /\ nStreams = 0
    /\ hostStopped = FALSE
    /\ ePc = [e \in EngThreads |-> "idle"]
    /\ eOp = [e \in EngThreads |-> None]
    /\ eRes = [e \in EngThreads |-> None]
    /\ eActive = [e \in EngThreads |-> FALSE]
    /\ eLog = [e \in EngThreads |-> <<>>]
    /\ eAfterClose = [e \in EngThreads |-> FALSE]
    /\ engClosed = FALSE
    /\ nEngOps = 0
    /\ gateEnabled = FALSE
    /\ gateThreshold = 0
    /\ threshold = NoRatio

\* portaudio.OpenStream, Stream.Start, Stream.Stop and Stream.Close succeed or fail.
HostResults == {"ok", "err"}

\* The caller's publisher call has returned: its frame is dropped.
PubCallDone(e) ==
    /\ psPc[e] = "ret"
    /\ psPc' = [psPc EXCEPT ![e] = "idle"]
    /\ psOp' = [psOp EXCEPT ![e] = None]
    /\ psLocal' = [psLocal EXCEPT ![e] = NoLocals]
    /\ psAlive' = [psAlive EXCEPT ![e] = {}]

\* The caller's sender call has returned: its frame is dropped.
SndCallDone(e) ==
    /\ sdPc[e] = "ret"
    /\ sdPc' = [sdPc EXCEPT ![e] = "idle"]
    /\ sdOp' = [sdOp EXCEPT ![e] = None]
    /\ sdData' = [sdData EXCEPT ![e] = NoData]
    /\ sdErr' = [sdErr EXCEPT ![e] = None]
    /\ sdRes' = [sdRes EXCEPT ![e] = None]
    /\ sdWrote' = [sdWrote EXCEPT ![e] = 0]
    /\ sdAfterClose' = [sdAfterClose EXCEPT ![e] = FALSE]
    /\ sdLog' = [sdLog EXCEPT ![e] = {}]

\* An application thread calls StartInputStream, StopInputStream or Close, as
\* one of at most max calls.
EngineCallWithin(e, op, pc, max) ==
    /\ ePc[e] = "idle"
    /\ nEngOps < max
    /\ nEngOps' = nEngOps + 1
    /\ ePc' = [ePc EXCEPT ![e] = pc]
    /\ eOp' = [eOp EXCEPT ![e] = op]
    /\ eAfterClose' = [eAfterClose EXCEPT ![e] = engClosed]
    /\ UNCHANGED <<engState, eRes, eActive, eLog, engClosed, fftVars, rdVars, sndVars,
                   pubVars, pkVars>>
EngineCall(e, op, pc) == EngineCallWithin(e, op, pc, MaxEngOps)
AppStartInputStream(e) == EngineCall(e, "StartInputStream", "startLock")
AppStopInputStream(e) == EngineCall(e, "StopInputStream", "stopLock")
\* Close, line 312: Close begins with StopInputStream.
AppEngineClose(e) == EngineCall(e, "Close", "stopLock")

\* StartInputStream, line 186: the check of e.streamActive.
StartSeesActive_Never == FALSE
StartSeesActive == streamActive

\* StartInputStream, lines 182-189: under streamMu, an active engine returns nil.
StartInputStream_Lock(e) ==
    /\ ePc[e] = "startLock"
    /\ streamMu = Nobody
    /\ eActive' = [eActive EXCEPT ![e] = streamActive]
    /\ IF StartSeesActive
       THEN /\ ePc' = [ePc EXCEPT ![e] = "ret"]
            /\ eRes' = [eRes EXCEPT ![e] = "nil"]
            /\ UNCHANGED streamMu
       ELSE /\ streamMu' = e
            /\ ePc' = [ePc EXCEPT ![e] = "open"]
            /\ UNCHANGED eRes
    /\ UNCHANGED <<streamActive, stream, hostOpen, nStreams, hostStopped, eOp, eLog,
                   nEngOps, eAfterClose, engClosed, fftVars, rdVars, sndVars, pubVars, pkVars>>

\* StartInputStream, lines 208-213: portaudio.OpenStream.
StartInputStream_Open(e) ==
    /\ ePc[e] = "open"
    /\ \E res \in HostResults :
          IF res = "ok"
          THEN /\ stream' = nStreams + 1
               /\ nStreams' = nStreams + 1
               /\ hostOpen' = hostOpen \cup {nStreams + 1}
               /\ ePc' = [ePc EXCEPT ![e] = "hostStart"]
               /\ UNCHANGED <<streamMu, eRes>>
          ELSE /\ streamMu' = Nobody
               /\ eRes' = [eRes EXCEPT ![e] = "err"]
               /\ ePc' = [ePc EXCEPT ![e] = "ret"]
               /\ UNCHANGED <<stream, nStreams, hostOpen>>
    /\ UNCHANGED <<streamActive, hostStopped, eOp, eActive, eLog, nEngOps, eAfterClose, engClosed, fftVars,
                   rdVars, sndVars, pubVars, pkVars>>

\* StartInputStream, line 222: e.stream = nil after a failed stream.Start.
StreamAfterFailedStart_Keep == stream
StreamAfterFailedStart == 0

\* StartInputStream, lines 218-233: stream.Start; on failure the stream is
\* closed again, on success the engine is active and the publisher is started.
StartInputStream_HostStart(e) ==
    /\ ePc[e] = "hostStart"
    /\ \E res \in HostResults :
          IF res = "ok"
          THEN /\ streamActive' = TRUE
               /\ hostStopped' = FALSE
               /\ Start_Call(e)
               /\ ePc' = [ePc EXCEPT ![e] = "pubStart"]
               /\ UNCHANGED <<stream, streamMu, hostOpen, eRes>>
          ELSE /\ hostOpen' = hostOpen \ {stream}
               /\ stream' = StreamAfterFailedStart
               /\ streamMu' = Nobody
               /\ eRes' = [eRes EXCEPT ![e] = "err"]
               /\ ePc' = [ePc EXCEPT ![e] = "ret"]
               /\ UNCHANGED <<streamActive, hostStopped, psPc, psOp, psLocal, psAlive>>
    /\ UNCHANGED <<nStreams, eOp, eActive, eLog, nEngOps, eAfterClose, engClosed, fftVars, rdVars, sndVars,
                   pubState, pubData, nPubOps, gVars, pkVars>>

\* StartInputStream, lines 232-235: the publisher's Start has returned; nil is
\* returned and the deferred Unlock runs.
StartInputStream_Return(e) ==
    /\ ePc[e] = "pubStart"
    /\ PubCallDone(e)
    /\ streamMu' = Nobody
    /\ eRes' = [eRes EXCEPT ![e] = "nil"]
    /\ ePc' = [ePc EXCEPT ![e] = "ret"]
    /\ UNCHANGED <<streamActive, stream, hostOpen, nStreams, hostStopped, eOp,
                   eActive, eLog, nEngOps, eAfterClose, engClosed, fftVars, rdVars, sndVars, pubState, pubData,
                   nPubOps, gVars, pkVars>>

\* Close, line 321: the position of a call that is about to close
\* e.closables[i - 1]; the loop ends below the first one and Close returns.
ClosePc(i) ==
    IF i = 0 THEN "ret"
    ELSE [fft |-> "closeFFT", sender |-> "closeSnd", publisher |-> "closePub"][Closables[i]]
\* The position after the closable named c: the loop goes downwards.
NextClosePc(c) ==
    ClosePc((CHOOSE i \in 1..Len(Closables) : Closables[i] = c) - 1)

\* Where a call goes once its StopInputStream part is over: Close continues
\* with the last closable (lines 312-321).
AfterStop(e) == IF eOp[e] = "Close" THEN ClosePc(Len(Closables)) ELSE "ret"

\* Close, lines 312-316 and 324-329: firstErr keeps the first error.
KeepFirst_Last(first, err) == IF err = "nil" THEN first ELSE err
KeepFirst(first, err) == IF first = "nil" THEN err ELSE first

\* A Close call has finished one of its parts with the result err.
LogPart(e, what, err) ==
    eLog' = [eLog EXCEPT ![e] =
               IF eOp[e] = "Close" THEN Append(@, [what |-> what, err |-> err]) ELSE @]

\* StopInputStream, lines 242-262: under streamMu, an inactive engine returns
\* nil; an active one calls the publisher's Stop first.
StopInputStream_Lock(e) ==
    /\ ePc[e] = "stopLock"
    /\ streamMu = Nobody
    /\ eActive' = [eActive EXCEPT ![e] = streamActive]
    /\ IF ~streamActive \/ stream = 0
       THEN /\ ePc' = [ePc EXCEPT ![e] = AfterStop(e)]
            /\ eRes' = [eRes EXCEPT ![e] = "nil"]
            /\ LogPart(e, "StopInputStream", "nil")
            /\ UNCHANGED <<streamMu, psPc, psOp, psLocal, psAlive>>
       ELSE /\ streamMu' = e
            /\ Stop_Call(e)
            /\ ePc' = [ePc EXCEPT ![e] = "pubStop"]
            /\ UNCHANGED <<eRes, eLog>>
    /\ UNCHANGED <<streamActive, stream, hostOpen, nStreams, hostStopped, eOp,
                   nEngOps, eAfterClose, engClosed, fftVars, rdVars, sndVars, pubState, pubData, nPubOps,
                   gVars, pkVars>>

\* StopInputStream, lines 267-275: the publisher's Stop has returned (it
\* returns nil); stream.Stop is called, which returns once no callback is
\* under way.
StopInputStream_HostStop(e) ==
    /\ ePc[e] = "pubStop"
    /\ cbAt = 0
    /\ PubCallDone(e)
    /\ hostStopped' = TRUE
    /\ \E res \in HostResults :
          eRes' = [eRes EXCEPT ![e] = IF res = "ok" THEN "nil" ELSE "err"]
    /\ ePc' = [ePc EXCEPT ![e] = "hostClose"]
    /\ UNCHANGED <<streamActive, stream, streamMu, hostOpen, nStreams, eOp, eActive, eLog,
                   nEngOps, eAfterClose, engClosed, fftVars, rdVars, sndVars, pubState, pubData, nPubOps,
                   gVars, pkVars>>

\* The error of a failed stream.Close (line 281), told apart from the error
\* of a failed stream.Stop ("err").
StreamCloseErr == "close err"

\* StopInputStream, lines 291-292: e.stream = nil and e.streamActive = false,
\* whatever stream.Stop and stream.Close returned.
StreamAfterStop(closeErr) == 0
ActiveAfterStop_KeepOnError(closeErr) == closeErr # "nil"
ActiveAfterStop(closeErr) == FALSE

\* StopInputStream, lines 280-296: stream.Close, the stream reference and the
\* active flag are cleared, the first error is returned.
StopInputStream_HostClose(e) ==
    /\ ePc[e] = "hostClose"
    /\ hostOpen' = hostOpen \ {stream}
    /\ \E res \in HostResults :
          LET closeErr == IF res = "ok" THEN "nil" ELSE StreamCloseErr
              err == KeepFirst(eRes[e], closeErr)
          IN /\ eRes' = [eRes EXCEPT ![e] = err]
             /\ LogPart(e, "StopInputStream", err)
             /\ stream' = StreamAfterStop(closeErr)
             /\ streamActive' = ActiveAfterStop(closeErr)
    /\ streamMu' = Nobody
    /\ ePc' = [ePc EXCEPT ![e] = AfterStop(e)]
    /\ UNCHANGED <<nStreams, hostStopped, eOp, eActive, nEngOps, eAfterClose, engClosed, fftVars, rdVars,
                   sndVars, pubVars, pkVars>>

\* Close, lines 321-324, on the publisher: its Close, which is its Stop, is called.
Close_Publisher(e) ==
    /\ ePc[e] = "closePub"
    /\ Stop_Call(e)
    /\ ePc' = [ePc EXCEPT ![e] = "closePubWait"]
    /\ UNCHANGED <<engState, eOp, eRes, eActive, eLog, nEngOps, eAfterClose, engClosed, fftVars, rdVars,
                   sndVars, pubState, pubData, nPubOps, gVars, pkVars>>

\* Close, lines 324-329: the publisher's Close has returned (always nil); the
\* loop goes on.
Close_PublisherDone(e) ==
    /\ ePc[e] = "closePubWait"
    /\ PubCallDone(e)
    /\ eRes' = [eRes EXCEPT ![e] = KeepFirst(@, "nil")]
    /\ LogPart(e, "publisher", "nil")
    /\ ePc' = [ePc EXCEPT ![e] = NextClosePc("publisher")]
    /\ UNCHANGED <<engState, eOp, eActive, nEngOps, eAfterClose, engClosed, fftVars, rdVars, sndVars,
                   pubState, pubData, nPubOps, gVars, pkVars>>

\* Close, lines 321-324, on the sender: its Close is called.
Close_Sender(e) ==
    /\ ePc[e] = "closeSnd"
    /\ Close_Call(e)
    /\ ePc' = [ePc EXCEPT ![e] = "closeSndWait"]
    /\ UNCHANGED <<engState, eOp, eRes, eActive, eLog, nEngOps, eAfterClose, engClosed, fftVars, rdVars,
                   nSndOps, pubVars, pkVars>>

\* Close, lines 324-329: the sender's Close has returned; its error is kept if
\* it is the first; the loop goes on.
Close_SenderDone(e) ==
    /\ ePc[e] = "closeSndWait"
    /\ SndCallDone(e)
    /\ eRes' = [eRes EXCEPT ![e] = KeepFirst(@, sdRes[e])]
    /\ LogPart(e, "sender", sdRes[e])
    /\ ePc' = [ePc EXCEPT ![e] = NextClosePc("sender")]
    /\ UNCHANGED <<engState, eOp, eActive, nEngOps, eAfterClose, engClosed, fftVars, rdVars, sndState,
                   sockVars, logCfg, closeReturned, nSndOps, pubVars, pkVars>>

\* Close, lines 321-329, on the FFT processor: its Close does nothing and
\* returns nil; the loop goes on.
Close_FFT(e) ==
    /\ ePc[e] = "closeFFT"
    /\ eRes' = [eRes EXCEPT ![e] = KeepFirst(@, "nil")]
    /\ LogPart(e, "fft", "nil")
    /\ ePc' = [ePc EXCEPT ![e] = NextClosePc("fft")]
    /\ UNCHANGED <<engState, eOp, eActive, nEngOps, eAfterClose, engClosed, fftVars, rdVars, sndVars,
                   pubVars, pkVars>>

\* The application thread takes the result of its finished call.
EngineReturn(e) ==
    /\ ePc[e] = "ret"
    /\ ePc' = [ePc EXCEPT ![e] = "idle"]
    /\ eOp' = [eOp EXCEPT ![e] = None]
    /\ eRes' = [eRes EXCEPT ![e] = None]
    /\ eActive' = [eActive EXCEPT ![e] = FALSE]
    /\ eLog' = [eLog EXCEPT ![e] = <<>>]
    /\ eAfterClose' = [eAfterClose EXCEPT ![e] = FALSE]
    /\ engClosed' = (engClosed \/ eOp[e] = "Close")
    /\ UNCHANGED <<engState, nEngOps, fftVars, rdVars, sndVars, pubVars, pkVars>>

\* The steps of StartInputStream and StopInputStream.
StreamStep(e) ==
    \/ StartInputStream_Lock(e)
    \/ StartInputStream_Open(e)
    \/ StartInputStream_HostStart(e)
    \/ StartInputStream_Return(e)
    \/ StopInputStream_Lock(e)
    \/ StopInputStream_HostStop(e)
    \/ StopInputStream_HostClose(e)

EngineStep(e) ==
    \/ StreamStep(e)
    \/ Close_Publisher(e)
    \/ Close_PublisherDone(e)
    \/ Close_Sender(e)
    \/ Close_SenderDone(e)
    \/ Close_FFT(e)

\* ======================================================================
\* audio.Engine: the audio callback and the noise gate
\* ======================================================================

\* ---- int32 arithmetic.  An int32 is kept as the two 16-bit halves
\* <<high, low>> of its two's-complement bit pattern, so that every
\* operation wraps as the machine's does.
RECURSIVE BitAnd(_, _)
BitAnd(a, b) ==
    IF a = 0 \/ b = 0 THEN 0
    ELSE 2 * BitAnd(a \div 2, b \div 2) + (a % 2) * (b % 2)
RECURSIVE BitXor(_, _)
BitXor(a, b) ==
    IF a = 0 THEN b
    ELSE IF b = 0 THEN a
    ELSE 2 * BitXor(a \div 2, b \div 2) + (((a % 2) + (b % 2)) % 2)
And32(a, b) == <<BitAnd(a[1], b[1]), BitAnd(a[2], b[2])>>
Xor32(a, b) == <<BitXor(a[1], b[1]), BitXor(a[2], b[2])>>
Add32(a, b) ==
    LET low == a[2] + b[2]
    IN  <<(a[1] + b[1] + (low \div 65536)) % 65536, low % 65536>>
\* x >> 31 for an int32: all ones for a negative x, zero otherwise.
Sar31(x) == IF x[1] >= 32768 THEN <<65535, 65535>> ELSE <<0, 0>>
\* The int32 with the value n, and the value of an int32.
ToInt32(n) == <<(n \div 65536) % 65536, n % 65536>>
Int32Val(x) ==
    IF x[1] >= 32768 THEN (x[1] - 65536) * 65536 + x[2] ELSE x[1] * 65536 + x[2]
MaxInt32 == 2147483647
MinInt32 == -MaxInt32 - 1

\* TestGateDetection, lines 155-157: the absolute value without a branch.
Amplitude(sample) ==
    LET mask == Sar31(sample)
    IN  Sub32(Xor32(sample, mask), mask)
\* TestGateDetection, lines 160-161: the running maximum without a branch.
BranchlessMax(maxAmplitude, amplitude) ==
    LET diff == Sub32(amplitude, maxAmplitude)
    IN  Add32(maxAmplitude, Xor32(And32(diff, Sar31(diff)), diff))
\* TestGateDetection, lines 152-162: the loop over the first n samples.
RECURSIVE PeakOfFirst(_, _)
PeakOfFirst(buffer, n) ==
    IF n = 0 THEN ToInt32(0)
    ELSE BranchlessMax(PeakOfFirst(buffer, n - 1), Amplitude(buffer[n]))
\* The peak of a buffer of model samples, as an integer.
PeakOf(in) == Int32Val(PeakOfFirst([i \in 1..Len(in) |-> ToInt32(in[i])], Len(in)))

\* ---- the peak loop on int32 samples
\* The samples of the loop's buffers: small values and the ends of int32.
Int32Samples ==
    {ToInt32(0), ToInt32(1), ToInt32(-1), ToInt32(5), ToInt32(-7),
     ToInt32(MaxInt32), ToInt32(MinInt32), ToInt32(MinInt32 + 1)}
MaxBufferLen == 2
RECURSIVE SeqsUpTo(_, _)
SeqsUpTo(S, n) == IF n = 0 THEN {<<>>} ELSE SeqsOfLen(S, n) \cup SeqsUpTo(S, n - 1)

InitNoPeak ==
    /\ gdBuffer = <<>>
    /\ gdI = 1
    /\ gdMax = ToInt32(0)

\* TestGateDetection, lines 152-162: one iteration of the loop.
GateDetection_Step ==
    /\ gdI <= Len(gdBuffer)
    /\ gdMax' = BranchlessMax(gdMax, Amplitude(gdBuffer[gdI]))
    /\ gdI' = gdI + 1
    /\ UNCHANGED <<gdBuffer, p2Vars, nfVars, neVars, progVars>>

\* ---- the gate (src/unnamed/part_008)
\* A ratio is <<"num", k>> for the float64 k / RatioUnit, <<"inf", 1>> and
\* <<"inf", -1>> for the infinities and <<"nan", 0>> for a NaN.
RatioUnit == 1000
Ratios ==
    {<<"num", k>> : k \in {-100, 0, 1, 500, 999, 1000, 1500}}
        \cup {<<"inf", 1>>, <<"inf", -1>>, <<"nan", 0>>}

\* SetGateThreshold, lines 17-22: the two clamps.  Every comparison with a
\* NaN is false, so a NaN passes both.
Clamp(r) ==
    IF r[1] = "nan" THEN r
    ELSE IF r[1] = "inf" THEN (IF r[2] < 0 THEN <<"num", 0>> ELSE <<"num", RatioUnit>>)
    ELSE IF r[2] < 0 THEN <<"num", 0>>
    ELSE IF r[2] > RatioUnit THEN <<"num", RatioUnit>>
    ELSE r

\* int32(NaN): the conversion of a value int32 cannot represent is
\* implementation-dependent; amd64 builds give MinInt32, arm64 builds 0.
NaNToInt32 == {MinInt32, 0}

\* SetGateThreshold, line 24: int32(threshold * float64(math.MaxInt32)) for a
\* clamped threshold k / RatioUnit, 0 <= k <= RatioUnit: the product
\* truncated.  k * MaxInt32 / RatioUnit is a whole number or at least
\* 1 / RatioUnit away from one, far more than the rounding error of the
\* float64 product, so the truncation of the exact product is the result.
ScaleToInt32(k) ==
    k * (MaxInt32 \div RatioUnit) + (k * (MaxInt32 % RatioUnit)) \div RatioUnit
StoredThresholds(r) ==
    IF Clamp(r)[1] = "nan" THEN NaNToInt32 ELSE {ScaleToInt32(Clamp(r)[2])}

\* EnableGate / DisableGate, lines 6-12.
EnableGate ==
    /\ gateEnabled' = TRUE
    /\ UNCHANGED <<inputChannels, gateThreshold, threshold, cbIn, nCallbacks, chainVars, recVars>>
    /\ UNCHANGED <<fftSize, window, wsVars, rwVars, cbVars, rdVars, notFFT>>
DisableGate ==
    /\ gateEnabled' = FALSE
    /\ UNCHANGED <<inputChannels, gateThreshold, threshold, cbIn, nCallbacks, chainVars, recVars>>
    /\ UNCHANGED <<fftSize, window, wsVars, rwVars, cbVars, rdVars, notFFT>>

\* SetGateThreshold, lines 16-25.
SetGateThreshold(r) ==
    /\ threshold' = r
    /\ gateThreshold' \in StoredThresholds(r)
    /\ UNCHANGED <<inputChannels, gateEnabled, cbIn, nCallbacks, chainVars, recVars>>
    /\ UNCHANGED <<fftSize, window, wsVars, rwVars, cbVars, rdVars, notFFT>>

\* GetGateThreshold, lines 29-31: float64(e.gateThreshold) /
\* float64(math.MaxInt32), kept as the fraction <<numerator, denominator>>.
GetGateThreshold == <<gateThreshold, MaxInt32>>

\* ---- the callback (engine.go)
InputChannels == {1, 2}
\* The host hands the callback frames_per_buffer frames of inputChannels
\* interleaved samples (StartInputStream, lines 193-208); NewEngine passes
\* frames_per_buffer to NewFFTProcessor as the FFT size (lines 85-89).
HostBuffers(channels, framesPerBuffer) == SeqsOfLen(Samples, channels * framesPerBuffer)

\* processInputStream, lines 166-175: every registered processor, that is
\* the FFT processor, is handed the buffer as the host delivered it.
processInputStream ==
    /\ \E in \in HostBuffers(inputChannels, fftSize) :
         /\ cbIn' = in
         /\ Process_Enter(in)
    /\ nCallbacks' = nCallbacks + 1
    /\ UNCHANGED <<inputChannels, gateEnabled, gateThreshold, threshold, chainVars, recVars>>

\* The rest of Process, run inside the callback.
Process_Body ==
    \/ Process_Lock
    \/ Process_Window
    \/ Process_FFT
    \/ Process_Magnitude
    \/ Process_Unlock

\* ---- the processor chain (engine.go)
\* The processors an application registers besides the FFT processor: one
\* without and one with a Close method.
Processors == {[name |-> "meter", closable |-> FALSE], [name |-> "tap", closable |-> TRUE]}
\* Number of processors registered after construction in one behaviour.
MaxRegister == 1

\* RegisterProcessor, line 144: the call begins.  The method is exported, takes
\* no lock and tests neither e.streamActive nor anything else.
RegisterProcessor_Call(processor) ==
    /\ rgPc = "idle"
    /\ Len(processors) <= MaxRegister
    /\ rgPc' = "append"
    /\ rgProc' = processor
    /\ UNCHANGED <<processors, closables, cbChain, cbAt>>
    /\ UNCHANGED <<inputChannels, gateEnabled, gateThreshold, threshold, cbIn, nCallbacks,
                   recVars>>
    /\ UNCHANGED <<fftSize, window, wsVars, rwVars, cbVars, rdVars, notFFT>>

\* RegisterProcessor, line 145: e.processors = append(e.processors, processor).
AppendProcessor(chain, processor) == Append(chain, processor.name)
RegisterProcessor_Append ==
    /\ rgPc = "append"
    /\ processors' = AppendProcessor(processors, rgProc)
    /\ rgPc' = "closable"
    /\ UNCHANGED <<closables, rgProc, cbChain, cbAt>>
    /\ UNCHANGED <<inputChannels, gateEnabled, gateThreshold, threshold, cbIn, nCallbacks,
                   recVars>>
    /\ UNCHANGED <<fftSize, window, wsVars, rwVars, cbVars, rdVars, notFFT>>

\* RegisterProcessor, lines 148-153: a processor with a Close method is
\* appended to e.closables; the call returns.
RegisterProcessor_Closable ==
    /\ rgPc = "closable"
    /\ closables' = IF rgProc.closable THEN Append(closables, rgProc.name) ELSE closables
    /\ rgPc' = "idle"
    /\ rgProc' = NoProc
    /\ UNCHANGED <<processors, cbChain, cbAt>>
    /\ UNCHANGED <<inputChannels, gateEnabled, gateThreshold, threshold, cbIn, nCallbacks,
                   recVars>>
    /\ UNCHANGED <<fftSize, window, wsVars, rwVars, cbVars, rdVars, notFFT>>

\* The host invokes the callback from stream.Start (StartInputStream, line
\* 218) to stream.Stop (StopInputStream, line 267).
HostRunning == stream # 0 /\ streamActive /\ ~hostStopped

\* processInputStream, line 172: the slice header the range loop reads, once,
\* without a lock.  While line 145 is being executed by another thread the
\* read races with the write of the header: it yields the old slice, the new
\* one, or the new length with the old array, whose last element is then not
\* a processor.
Garbage == "garbage"
RangeOver ==
    IF rgPc = "append"
    THEN {processors, AppendProcessor(processors, rgProc), Append(processors, Garbage)}
    ELSE {processors}

\* processInputStream, lines 161-172: the host delivers a buffer and the loop
\* over e.processors begins.
processInputStream_Range ==
    /\ HostRunning
    /\ cbAt = 0
    /\ cbPc = "idle"
    /\ nCallbacks < MaxFrames
    /\ nCallbacks' = nCallbacks + 1
    /\ cbIn' = LevelBuffer(nCallbacks + 1)
    /\ cbChain' \in RangeOver
    /\ cbAt' = 1
    /\ UNCHANGED <<processors, closables, rgPc, rgProc>>
    /\ UNCHANGED <<inputChannels, gateEnabled, gateThreshold, threshold, recVars>>
    /\ UNCHANGED <<fftSize, window, wsVars, rwVars, cbVars, rdVars, notFFT>>

\* processInputStream, line 173: processor.Process(in) on the next element.
\* The FFT processor's Process is the one above; the other processors' return
\* at once; a call through an element that is no processor panics.
processInputStream_Process ==
    /\ cbAt >= 1
    /\ cbAt <= Len(cbChain)
    /\ cbPc = "idle"
    /\ cbAt' = cbAt + 1
    /\ IF cbChain[cbAt] = "fft"
       THEN Process_Enter(cbIn)
       ELSE /\ cbPc' = IF cbChain[cbAt] = Garbage THEN "panic" ELSE cbPc
            /\ UNCHANGED <<cbBuf, cbIdx, nProcess, frames>>
            /\ UNCHANGED <<fftSize, window, wsVars, rwVars, rdVars, notFFT>>
    /\ UNCHANGED <<processors, closables, rgPc, rgProc, cbChain>>
    /\ UNCHANGED <<inputChannels, gateEnabled, gateThreshold, threshold, cbIn, nCallbacks,
                   recVars>>

\* processInputStream, lines 174-175: the loop is over and the callback
\* returns.
processInputStream_Return ==
    /\ cbAt > Len(cbChain)
    /\ cbPc = "idle"
    /\ cbAt' = 0
    /\ UNCHANGED <<processors, closables, rgPc, rgProc, cbChain>>
    /\ UNCHANGED <<inputChannels, gateEnabled, gateThreshold, threshold, cbIn, nCallbacks,
                   recVars>>
    /\ UNCHANGED <<fftSize, window, wsVars, rwVars, cbVars, rdVars, notFFT>>

\* ---- recording (src/internal/audio/recording.go)
\* Number of StartRecording / StopRecording calls made in one behaviour.
MaxRecOps == 6
\* os.Create, wav.Encoder.Close and os.File.Close succeed or fail.
FileResults == {"ok", "err"}
AlreadyRecording == "already recording"

RecUnchanged == UNCHANGED <<inputChannels, gateEnabled, gateThreshold, threshold, cbIn,
                            nCallbacks, chainVars, fftSize, window, wsVars, rwVars,
                            cbVars, rdVars, notFFT>>

\* StartRecording, lines 12-15: a call made while recording returns the error.
StartRecording_Call ==
    /\ rcPc = "idle"
    /\ nRecOps < MaxRecOps
    /\ nRecOps' = nRecOps + 1
    /\ rcOp' = "StartRecording"
    /\ IF isRecording = 1
       THEN rcRes' = AlreadyRecording /\ rcPc' = "ret"
       ELSE rcRes' = None /\ rcPc' = "create"
    /\ UNCHANGED <<isRecording, wavEncoder, outputFile, nFiles>>
    /\ RecUnchanged

\* StartRecording, lines 17-21: os.Create; its error is returned, its file
\* stored.
StartRecording_Create ==
    /\ rcPc = "create"
    /\ \E res \in FileResults :
          IF res = "ok"
          THEN /\ outputFile' = nFiles + 1
               /\ nFiles' = nFiles + 1
               /\ rcPc' = "encoder"
               /\ UNCHANGED rcRes
          ELSE /\ rcRes' = "err"
               /\ rcPc' = "ret"
               /\ UNCHANGED <<outputFile, nFiles>>
    /\ UNCHANGED <<isRecording, wavEncoder, rcOp, nRecOps>>
    /\ RecUnchanged

\* StartRecording, lines 23-36: the encoder on the file, the sample buffer,
\* isRecording = 1; nil is returned.
StartRecording_Encoder ==
    /\ rcPc = "encoder"
    /\ wavEncoder' = outputFile
    /\ isRecording' = 1
    /\ rcRes' = "nil"
    /\ rcPc' = "ret"
    /\ UNCHANGED <<outputFile, rcOp, nFiles, nRecOps>>
    /\ RecUnchanged

\* StopRecording, lines 39-44: a call made while not recording returns nil;
\* otherwise isRecording is cleared first.
StopRecording_Call ==
    /\ rcPc = "idle"
    /\ nRecOps < MaxRecOps
    /\ nRecOps' = nRecOps + 1
    /\ rcOp' = "StopRecording"
    /\ IF isRecording = 0
       THEN rcRes' = "nil" /\ rcPc' = "ret" /\ UNCHANGED isRecording
       ELSE rcRes' = None /\ rcPc' = "encoderClose" /\ isRecording' = 0
    /\ UNCHANGED <<wavEncoder, outputFile, nFiles>>
    /\ RecUnchanged

\* StopRecording, lines 46-51: the error of wavEncoder.Close() is returned at
\* once; on success the field is set to nil.
EncoderAfterClose(res) == IF res = "ok" THEN 0 ELSE wavEncoder
StopRecording_Encoder ==
    /\ rcPc = "encoderClose"
    /\ IF wavEncoder # 0
       THEN \E res \in FileResults :
               /\ wavEncoder' = EncoderAfterClose(res)
               /\ IF res = "ok"
                  THEN rcPc' = "fileClose" /\ UNCHANGED rcRes
                  ELSE rcPc' = "ret" /\ rcRes' = "err"
       ELSE rcPc' = "fileClose" /\ UNCHANGED <<wavEncoder, rcRes>>
    /\ UNCHANGED <<isRecording, outputFile, rcOp, nFiles, nRecOps>>
    /\ RecUnchanged

\* StopRecording, lines 53-60: the error of outputFile.Close() is returned at
\* once; on success the field is set to nil and nil is returned.
StopRecording_File ==
    /\ rcPc = "fileClose"
    /\ IF outputFile # 0
       THEN \E res \in FileResults :
               IF res = "ok"
               THEN outputFile' = 0 /\ rcRes' = "nil"
               ELSE rcRes' = "err" /\ UNCHANGED outputFile
       ELSE rcRes' = "nil" /\ UNCHANGED outputFile
    /\ rcPc' = "ret"
    /\ UNCHANGED <<isRecording, wavEncoder, rcOp, nFiles, nRecOps>>
    /\ RecUnchanged

\* The application takes the result of its finished call.
RecordingReturn ==
    /\ rcPc = "ret"
    /\ rcPc' = "idle"
    /\ rcOp' = None
    /\ rcRes' = None
    /\ UNCHANGED <<isRecording, wavEncoder, outputFile, nFiles, nRecOps>>
    /\ RecUnchanged

\* ======================================================================
\* bitint (src/pkg/bitint/pow2.go) on machine integers
\* ======================================================================

\* A machine integer is kept as the 16-bit words of its two's-complement bit
\* pattern, most significant first: 2 words for int32 and for int on a 32-bit
\* platform, 4 words for int64 and for int on a 64-bit platform.
ZeroW(n) == [i \in 1..n |-> 0]
OneW(n) == [i \in 1..n |-> IF i = n THEN 1 ELSE 0]
IsZeroW(x) == \A i \in 1..Len(x) : x[i] = 0
\* x > 0
Positive(x) == x[1] < 32768 /\ ~IsZeroW(x)
\* x - 1, wrapping.
RECURSIVE DecFrom(_, _)
DecFrom(x, i) ==
    IF x[i] > 0 THEN [x EXCEPT ![i] = @ - 1]
    ELSE IF i = 1 THEN [x EXCEPT ![1] = 65535]
    ELSE DecFrom([x EXCEPT ![i] = 65535], i - 1)
Dec(x) == DecFrom(x, Len(x))
AndW(a, b) == [i \in 1..Len(a) |-> BitAnd(a[i], b[i])]
\* uint32(x) keeps the two low words; uint64(x) extends a narrower x by its sign.
Uint32Of(x) == <<x[Len(x) - 1], x[Len(x)]>>
Uint64Of(x) ==
    IF Len(x) = 4 THEN x
    ELSE (IF x[1] >= 32768 THEN <<65535, 65535>> ELSE <<0, 0>>) \o x
\* bits.Len32 / bits.Len64: the number of bits needed to represent x.
RECURSIVE Len16(_)
Len16(a) == IF a = 0 THEN 0 ELSE 1 + Len16(a \div 2)
BitsLen(x) ==
    IF IsZeroW(x) THEN 0
    ELSE LET i == CHOOSE i \in 1..Len(x) : x[i] # 0 /\ \A j \in 1..(i - 1) : x[j] = 0
         IN  16 * (Len(x) - i) + Len16(x[i])
\* 1 << k in an integer of n words: the bit is lost when k reaches the width.
ShiftLeftOne(k, n) ==
    [i \in 1..n |-> IF k < 16 * n /\ i = n - (k \div 16) THEN Pow2(k % 16) ELSE 0]

\* IsPowerOfTwo, IsPowerOfTwo32, IsPowerOfTwo64, lines 106-118.
IsPowerOfTwoInt(n) == Positive(n) /\ IsZeroW(AndW(n, Dec(n)))
IsPowerOfTwo32(n) == Positive(n) /\ IsZeroW(AndW(n, Dec(n)))
IsPowerOfTwo64(n) == Positive(n) /\ IsZeroW(AndW(n, Dec(n)))

\* ^uint(0) >> 63 (line 69) for a uint of n words.
AllOnesShr63(n) == IF 63 < 16 * n THEN 1 ELSE 0

\* NextPowerOfTwo, lines 63-75; the argument's length is the platform's int.
NextPowerOfTwo(size) ==
    IF ~Positive(size) THEN OneW(Len(size))
    ELSE IF AllOnesShr63(Len(size)) = 0
    THEN ShiftLeftOne(BitsLen(Uint64Of(Dec(size))), Len(size))
    ELSE ShiftLeftOne(BitsLen(Uint32Of(Dec(size))), Len(size))
\* NextPowerOfTwo32, lines 78-83.
NextPowerOfTwo32(size) ==
    IF ~Positive(size) THEN OneW(2)
    ELSE ShiftLeftOne(BitsLen(Uint32Of(Dec(size))), 2)
\* NextPowerOfTwo64, lines 86-91.
NextPowerOfTwo64(size) ==
    IF ~Positive(size) THEN OneW(4)
    ELSE ShiftLeftOne(BitsLen(Uint64Of(Dec(size))), 4)

\* The functions called, each with the number of words of its argument type.
P2Functions ==
    {<<"NextPowerOfTwo", 4>>, <<"NextPowerOfTwo", 2>>,
     <<"NextPowerOfTwo32", 2>>, <<"NextPowerOfTwo64", 4>>}
\* The arguments: 0, -1, the lowest and the highest integer, and the
\* neighbourhood 2^k - 1, 2^k, 2^k + 1 of every positive power of two.
P2Sizes(n) ==
    {ZeroW(n), [i \in 1..n |-> 65535],
     [i \in 1..n |-> IF i = 1 THEN 32768 ELSE 0],
     [i \in 1..n |-> IF i = 1 THEN 32767 ELSE 65535]}
    \cup {ShiftLeftOne(k, n) : k \in 0..(16 * n - 2)}
    \cup {Dec(ShiftLeftOne(k, n)) : k \in 0..(16 * n - 2)}
    \cup {[ShiftLeftOne(k, n) EXCEPT ![n] = @ + 1] : k \in 1..(16 * n - 2)}

InitNoPow2 ==
    /\ p2Fn = <<"NextPowerOfTwo", 4>>
    /\ p2Size = ZeroW(4)
    /\ p2Out = <<>>

NextPowerOfTwo_Call ==
    /\ p2Out = <<>>
    /\ p2Out' = (IF p2Fn[1] = "NextPowerOfTwo" THEN NextPowerOfTwo(p2Size)
                 ELSE IF p2Fn[1] = "NextPowerOfTwo32" THEN NextPowerOfTwo32(p2Size)
                 ELSE NextPowerOfTwo64(p2Size))
    /\ UNCHANGED <<p2Fn, p2Size, gdVars, nfVars, neVars, progVars>>

\* The power-of-two test that goes with the function called.
IsPowerOfTwo_Of(fn, n) ==
    IF fn[1] = "NextPowerOfTwo" THEN IsPowerOfTwoInt(n)
    ELSE IF fn[1] = "NextPowerOfTwo32" THEN IsPowerOfTwo32(n)
    ELSE IsPowerOfTwo64(n)

\* ======================================================================
\* One call of analysis.NewFFTProcessor
\* ======================================================================

\* A sample rate is <<"num", r>> for r Hz, <<"inf", 1>>, <<"inf", -1>> or
\* <<"nan", 0>>.
MaxFftSizeArg == 33
FftSizeArgs == (-4)..MaxFftSizeArg
SampleRates ==
    {<<"num", -44100>>, <<"num", 0>>, <<"num", 1>>, <<"num", 44100>>,
     <<"inf", 1>>, <<"inf", -1>>, <<"nan", 0>>}

\* NewFFTProcessor, line 64: sampleRate <= 0.
RateNotPositive_Negative(sampleRate) == sampleRate[1] # "nan" /\ sampleRate[2] < 0
RateNotPositive(sampleRate) ==
    \/ sampleRate[1] = "num" /\ sampleRate[2] <= 0
    \/ sampleRate[1] = "inf" /\ sampleRate[2] < 0

InitNoNewFFT ==
    /\ nfSize = 2
    /\ nfRate = <<"num", 44100>>
    /\ nfRes = <<>>

\* NewFFTProcessor, lines 58-91: the result is <<processor, err>>, the
\* processor <<fftSize, magnitudeSize>> or <<>> for nil.
NewFFTProcessor_Result(size, sampleRate) ==
    IF ~IsPowerOfTwo(size) THEN << <<>>, "fft size must be a power of 2" >>
    ELSE IF RateNotPositive(sampleRate) THEN << <<>>, "sample rate must be positive" >>
    ELSE << <<size, MagnitudeSize(size)>>, "nil" >>
NewFFTProcessor_Call ==
    /\ nfRes = <<>>
    /\ nfRes' = NewFFTProcessor_Result(nfSize, nfRate)
    /\ UNCHANGED <<nfSize, nfRate, gdVars, p2Vars, neVars, progVars>>

\* ======================================================================
\* One call of audio.NewEngine
\* ======================================================================

\* The configurations: config.Audio.FramesPerBuffer, SampleRate and
\* InputChannels, and config.Transport.UDPEnabled.
MaxFramesPerBufferArg == 8
EngineConfigs ==
    [framesPerBuffer : (-1)..MaxFramesPerBufferArg,
     sampleRate : SampleRates,
     inputChannels : {-1, 0, 1, 2},
     udpEnabled : BOOLEAN]

InitNoNewEngine ==
    /\ neConfig = [framesPerBuffer |-> 2, sampleRate |-> <<"num", 44100>>,
                   inputChannels |-> 1, udpEnabled |-> TRUE]
    /\ neRes = <<>>

\* NewEngine, lines 40-139.  InputDevice (line 45) and NewUDPSender (line 103)
\* succeed or fail; NewUDPPublisher is handed a sender and a processor and
\* cannot fail; Config.Validate checks nothing and NewEngine does not call it.
\* The result is <<engine, err>>, the engine <<fftSize, channels, udp>> or
\* <<>> for nil.
NewEngine_Call ==
    /\ neRes = <<>>
    /\ \E deviceOk \in BOOLEAN, senderOk \in BOOLEAN :
         neRes' =
           (IF ~deviceOk THEN << <<>>, "engine: failed to get input device" >>
            ELSE IF NewFFTProcessor_Result(neConfig.framesPerBuffer, neConfig.sampleRate)[2] # "nil"
                 THEN << <<>>, "engine: failed to create FFT processor" >>
            ELSE IF neConfig.udpEnabled /\ ~senderOk
                 THEN << <<>>, "engine: failed to create UDP sender" >>
            ELSE << <<neConfig.framesPerBuffer, neConfig.inputChannels,
                      neConfig.udpEnabled>>, "nil" >>)
    /\ UNCHANGED <<neConfig, gdVars, p2Vars, nfVars, progVars>>

\* The audio callback and the readers before their first call.
InitCallback ==
    /\ cbPc = "idle"
    /\ cbBuf = <<>>
    /\ cbIdx = 1
    /\ nProcess = 0
    /\ frames = {magnitude}
    /\ cbIn = <<>>
    /\ nCallbacks = 0
InitReaders ==
    /\ rdPc = [r \in Readers |-> "idle"]
    /\ rdOp = [r \in Readers |-> None]
    /\ rdDest = [r \in Readers |-> <<>>]
    /\ rdIdx = [r \in Readers |-> 1]
    /\ rdErr = [r \in Readers |-> FALSE]

FFTSizes == {Pow2(k) : k \in 1..MaxLogFft}
WindowTypes == {"Hann", "Hamming"}

InitFFT ==
    /\ \E n \in FFTSizes, w \in WindowTypes : NewFFTProcessor(n, w)
    /\ InitCallback
    /\ InitReaders
    /\ NewUDPSender
    /\ NewUDPSender_Debug(FALSE, LevelInfo)
    /\ InitSndCallers
    /\ NewUDPPublisher
    /\ InitPubCallers
    /\ InitNoPacket
    /\ NewEngine
    /\ inputChannels = 1
    /\ InitNoPeak
    /\ InitNoPow2
    /\ InitNoNewFFT
    /\ InitNoNewEngine

NextFFT ==
    \/ Process
    \/ \E r \in AppReaders : GetMagnitudes(r)
    \/ \E r \in AppReaders : GetMagnitudesInto(r)
    \/ \E r \in AppReaders : ReaderStep(r)
    \/ \E r \in AppReaders : Reader_Return(r)

\* The FFT processor with its writer (the audio callback) and its readers.
SpecFFT == InitFFT /\ [][NextFFT]_vars

NextProcess ==
    \/ Process_AnyLength
    \/ Process_Body

\* The FFT processor called with input buffers of every length.
SpecProcess == InitFFT /\ [][NextProcess]_vars

InitCallbackSpec ==
    /\ \E n \in FFTSizes, w \in WindowTypes : NewFFTProcessor(n, w)
    /\ InitCallback
    /\ InitReaders
    /\ NewUDPSender
    /\ NewUDPSender_Debug(FALSE, LevelInfo)
    /\ InitSndCallers
    /\ NewUDPPublisher
    /\ InitPubCallers
    /\ InitNoPacket
    /\ NewEngine
    /\ inputChannels \in InputChannels
    /\ InitNoPeak
    /\ InitNoPow2
    /\ InitNoNewFFT
    /\ InitNoNewEngine

NextCallback ==
    \/ processInputStream
    \/ Process_Body
    \/ EnableGate
    \/ DisableGate
    \/ \E r \in Ratios : SetGateThreshold(r)

\* The engine's audio callback with its FFT processor, and the gate's setters.
SpecCallback == InitCallbackSpec /\ [][NextCallback]_vars

\* Everything but the single calls, in its state after construction.
InitProgram ==
    /\ NewFFTProcessor(2, "Hamming")
    /\ InitCallback
    /\ InitReaders
    /\ NewUDPSender
    /\ NewUDPSender_Debug(FALSE, LevelInfo)
    /\ InitSndCallers
    /\ NewUDPPublisher
    /\ InitPubCallers
    /\ InitNoPacket
    /\ NewEngine
    /\ inputChannels = 2

InitPeak ==
    /\ InitProgram
    /\ gdBuffer \in SeqsUpTo(Int32Samples, MaxBufferLen)
    /\ gdI = 1
    /\ gdMax = ToInt32(0)
    /\ InitNoPow2
    /\ InitNoNewFFT
    /\ InitNoNewEngine

NextPeak == GateDetection_Step

\* The gate's peak loop over every buffer of the sample values.
SpecPeak == InitPeak /\ [][NextPeak]_vars

InitPow2 ==
    /\ InitProgram
    /\ InitNoPeak
    /\ p2Fn \in P2Functions
    /\ p2Size \in P2Sizes(p2Fn[2])
    /\ p2Out = <<>>
    /\ InitNoNewFFT
    /\ InitNoNewEngine

NextPow2 == NextPowerOfTwo_Call

\* One call of NextPowerOfTwo, NextPowerOfTwo32 or NextPowerOfTwo64.
SpecPow2 == InitPow2 /\ [][NextPow2]_vars

InitNewFFT ==
    /\ InitProgram
    /\ InitNoPeak
    /\ InitNoPow2
    /\ nfSize \in FftSizeArgs
    /\ nfRate \in SampleRates
    /\ nfRes = <<>>
    /\ InitNoNewEngine

NextNewFFT == NewFFTProcessor_Call

\* One call of NewFFTProcessor.
SpecNewFFT == InitNewFFT /\ [][NextNewFFT]_vars

InitNewEngine ==
    /\ InitProgram
    /\ InitNoPeak
    /\ InitNoPow2
    /\ InitNoNewFFT
    /\ neConfig \in EngineConfigs
    /\ neRes = <<>>

NextNewEngine == NewEngine_Call

\* One call of NewEngine.
SpecNewEngine == InitNewEngine /\ [][NextNewEngine]_vars

InitSender ==
    /\ NewFFTProcessor(2, "Hamming")
    /\ InitCallback
    /\ InitReaders
    /\ NewUDPSender
    /\ \E debug \in BOOLEAN, level \in LogLevels : NewUDPSender_Debug(debug, level)
    /\ InitSndCallers
    /\ NewUDPPublisher
    /\ InitPubCallers
    /\ InitNoPacket
    /\ NewEngine
    /\ inputChannels = 1
    /\ InitNoPeak
    /\ InitNoPow2
    /\ InitNoNewFFT
    /\ InitNoNewEngine

NextSender ==
    \/ \E c \in SndThreads : AppSend(c)
    \/ \E c \in SndThreads : AppClose(c)
    \/ \E c \in SndThreads : SendStep(c)
    \/ \E c \in SndThreads : CloseStep(c)
    \/ \E c \in SndThreads : AppSndReturn(c)

\* One UDPSender used by concurrent application threads.
SpecSender == InitSender /\ [][NextSender]_vars

InitPub ==
    /\ \E n \in FFTSizes : NewFFTProcessor(n, "Hamming")
    /\ InitCallback
    /\ InitReaders
    /\ NewUDPSender
    /\ NewUDPSender_Debug(FALSE, LevelInfo)
    /\ InitSndCallers
    /\ NewUDPPublisher
    /\ InitPubCallers
    /\ InitNoPacket
    /\ NewEngine
    /\ inputChannels = 1
    /\ InitNoPeak
    /\ InitNoPow2
    /\ InitNoNewFFT
    /\ InitNoNewEngine

NextPub ==
    \/ \E t \in PubThreads : AppStart(t)
    \/ \E t \in PubThreads : AppStop(t)
    \/ \E t \in PubThreads : PublisherStep(t)
    \/ \E t \in PubThreads : AppPubReturn(t)
    \/ \E g \in Goroutines : GoroutineStep(g)
    \/ \E g \in Goroutines : ReaderStep(g)
    \/ \E g \in Goroutines : SendStep(g)

\* One UDPPublisher driven by concurrent application threads.
SpecPub == InitPub /\ [][NextPub]_vars

NextStream ==
    \/ NextPub
    \/ Process_Level
    \/ Process_Body

\* The publisher reading the FFT processor while the audio callback runs
\* Process on frames that differ from one another.
SpecStream == InitPub /\ [][NextStream]_vars

\* The same under fair scheduling: every thread inside Start or Stop and every
\* goroutine keeps running, and the calls a goroutine makes (GetMagnitudesInto,
\* Send) return.  Nothing obliges the application to make a further call.
FairPub ==
    /\ \A t \in PubThreads : WF_vars(PublisherStep(t))
    /\ \A g \in Goroutines :
          WF_vars(GoroutineStep(g)) /\ WF_vars(ReaderStep(g)) /\ WF_vars(SendStep(g))
SpecPubFair == InitPub /\ [][NextPub]_vars /\ FairPub

\* An application that restarts a publisher: its first call is Start, any
\* thread may call Stop, and a thread whose Stop has returned calls Start again.
MaxRestartOps == 4
AppRestart(t) ==
    /\ psPc[t] = "ret"
    /\ psOp[t] = "Stop"
    /\ nPubOps < MaxRestartOps
    /\ nPubOps' = nPubOps + 1
    /\ psPc' = [psPc EXCEPT ![t] = "startLock"]
    /\ psOp' = [psOp EXCEPT ![t] = "Start"]
    /\ psLocal' = [psLocal EXCEPT ![t] = NoLocals]
    /\ psAlive' = [psAlive EXCEPT ![t] = {}]
    /\ UNCHANGED <<pubState, pubData, gVars, notPub>>
NextRestart ==
    \/ \E t \in PubThreads : AppStartWithin(t, 1)
    \/ \E t \in PubThreads : AppStopWithin(t, MaxRestartOps)
    \/ \E t \in PubThreads : AppRestart(t)
    \/ \E t \in PubThreads : PublisherStep(t)
    \/ \E t \in PubThreads : AppPubReturn(t)
    \/ \E g \in Goroutines : GoroutineStep(g)
    \/ \E g \in Goroutines : ReaderStep(g)
    \/ \E g \in Goroutines : SendStep(g)
SpecRestart == InitPub /\ [][NextRestart]_vars

InitPacket ==
    /\ NewFFTProcessor(2, "Hamming")
    /\ InitCallback
    /\ InitReaders
    /\ NewUDPSender
    /\ NewUDPSender_Debug(FALSE, LevelInfo)
    /\ InitSndCallers
    /\ NewUDPPublisher
    /\ InitPubCallers
    /\ NewEngine
    /\ inputChannels = 1
    /\ InitNoPeak
    /\ InitNoPow2
    /\ InitNoNewFFT
    /\ InitNoNewEngine
    /\ pkFftSize \in PacketFftSizes
    /\ pkSeq \in PacketSeqs
    /\ pkTs \in PacketTimes
    /\ pkHeader = <<>>
    /\ pkLen = 0

NextPacket == PackPacket

\* The bytes of one packet for every accepted FFT size.
SpecPacket == InitPacket /\ [][NextPacket]_vars

InitEngine ==
    /\ NewFFTProcessor(2, "Hamming")
    /\ InitCallback
    /\ InitReaders
    /\ NewUDPSender
    /\ NewUDPSender_Debug(FALSE, LevelInfo)
    /\ InitSndCallers
    /\ NewUDPPublisher
    /\ InitPubCallers
    /\ InitNoPacket
    /\ NewEngine
    /\ inputChannels = 1
    /\ InitNoPeak
    /\ InitNoPow2
    /\ InitNoNewFFT
    /\ InitNoNewEngine

NextEngine ==
    \/ \E e \in EngThreads : AppStartInputStream(e)
    \/ \E e \in EngThreads : AppStopInputStream(e)
    \/ \E e \in EngThreads : AppEngineClose(e)
    \/ \E e \in EngThreads : EngineStep(e)
    \/ \E e \in EngThreads : PublisherStep(e)
    \/ \E e \in EngThreads : CloseStep(e)
    \/ \E e \in EngThreads : EngineReturn(e)
    \/ \E g \in Goroutines : GoroutineStep(g)
    \/ \E g \in Goroutines : ReaderStep(g)
    \/ \E g \in Goroutines : SendStep(g)

\* One Engine, with its publisher and sender, driven by concurrent threads.
SpecEngine == InitEngine /\ [][NextEngine]_vars

\* TestGateDetection, line 164: triggered := maxAmplitude > tt.threshold, on
\* the peak of the loop and the threshold SetGateThreshold stored.
Triggered == Int32Val(gdMax) > gateThreshold

NextGate ==
    \/ GateDetection_Step
    \/ \E r \in Ratios : SetGateThreshold(r)

\* The gate's peak loop over every buffer, with the threshold set to every
\* ratio.
SpecGate == InitPeak /\ [][NextGate]_vars

NextRecording ==
    \/ StartRecording_Call
    \/ StartRecording_Create
    \/ StartRecording_Encoder
    \/ StopRecording_Call
    \/ StopRecording_Encoder
    \/ StopRecording_File
    \/ RecordingReturn

\* One Engine on which StartRecording and StopRecording are called one after
\* the other.
SpecRecording == InitEngine /\ [][NextRecording]_vars

\* Number of engine calls made under fair scheduling, by one thread that
\* starts and stops the stream and one that closes the engine.
MaxFairOps == 4
StreamThread == <<"e", 1>>
CloseThread == <<"e", 2>>

NextEngineFair ==
    \/ EngineCallWithin(StreamThread, "StartInputStream", "startLock", MaxFairOps)
    \/ EngineCallWithin(StreamThread, "StopInputStream", "stopLock", MaxFairOps)
    \/ EngineCallWithin(CloseThread, "Close", "stopLock", MaxFairOps)
    \/ \E e \in EngThreads : EngineStep(e)
    \/ \E e \in EngThreads : PublisherStep(e)
    \/ \E e \in EngThreads : CloseStep(e)
    \/ \E e \in EngThreads : EngineReturn(e)
    \/ \E g \in Goroutines : GoroutineStep(g)
    \/ \E g \in Goroutines : ReaderStep(g)
    \/ \E g \in Goroutines : SendStep(g)

\* Fair scheduling of the engine: every thread inside a call and every
\* goroutine keeps running, and the calls they make return.  Nothing obliges
\* the application to make a further call.
FairEngine ==
    /\ \A e \in EngThreads :
          /\ WF_vars(EngineStep(e)) /\ WF_vars(PublisherStep(e))
          /\ WF_vars(CloseStep(e)) /\ WF_vars(EngineReturn(e))
    /\ \A g \in Goroutines :
          WF_vars(GoroutineStep(g)) /\ WF_vars(ReaderStep(g)) /\ WF_vars(SendStep(g))

\* One Engine under fair scheduling.
SpecEngineFair == InitEngine /\ [][NextEngineFair]_vars /\ FairEngine

\* The engine thread that starts and stops the stream while another thread
\* registers processors and the host runs the callback.
ChainThread == <<"e", 1>>

NextChain ==
    \/ AppStartInputStream(ChainThread)
    \/ AppStopInputStream(ChainThread)
    \/ StreamStep(ChainThread)
    \/ PublisherStep(ChainThread)
    \/ EngineReturn(ChainThread)
    \/ \E g \in Goroutines : GoroutineStep(g)
    \/ \E g \in Goroutines : ReaderStep(g)
    \/ \E g \in Goroutines : SendStep(g)
    \/ \E processor \in Processors : RegisterProcessor_Call(processor)
    \/ RegisterProcessor_Append
    \/ RegisterProcessor_Closable
    \/ processInputStream_Range
    \/ processInputStream_Process
    \/ processInputStream_Return
    \/ Process_Body

\* One Engine whose stream is started and stopped while processors are
\* registered and the host delivers buffers.
SpecChain == InitEngine /\ [][NextChain]_vars

\* ======================================================================
\* The claims
\* ======================================================================

\* C1: whatever the interleaving of Process with GetMagnitudes and
\* GetMagnitudesInto, the copy a reader returns with equals, element for
\* element, the magnitude array of one completed Process call or the initial
\* all-zero array; it is never a mix of two frames.
C1_ReadersSeeWholeFrames ==
    \A r \in Readers : (rdPc[r] = "ret" /\ ~rdErr[r]) => rdDest[r] \in frames

\* C1 witness: a reader returns with a frame a Process call produced while the
\* callback is in the middle of writing the next frame.
C1_Witness ==
    \E r \in Readers :
        /\ rdPc[r] = "ret" /\ ~rdErr[r]
        /\ rdDest[r] # Zeros(MagnitudeSize(fftSize))
        /\ cbPc = "mag" /\ cbIdx = 2 /\ magnitude \notin frames

\* C2: the audio callback never waits in Lock() while a reader holds the
\* workspace lock.
C2_WriterNeverWaitsForReader == ~(cbPc = "lock" /\ wsReaders # {})

\* The samples of channel 0 of an interleaved buffer.
Channel0(in) ==
    [i \in 1..(Len(in) \div inputChannels) |-> in[(i - 1) * inputChannels + 1]]

\* C14: when the callback delivers an interleaved buffer, the samples the FFT
\* processor windows and transforms are the channel-0 samples of the buffer
\* (the samples at even indices for 2 channels, the whole buffer for 1).
C14_MonoExtraction ==
    (cbIn # <<>> /\ cbPc \in {"fft", "mag"}) =>
        /\ wsInput = [i \in 1..fftSize |-> Channel0(cbIn)[i] * window[i]]
        /\ cbPc = "mag" =>
             fftOutput = Coefficients([i \in 1..fftSize |-> Channel0(cbIn)[i] * window[i]])

\* C15: for every buffer the callback delivers, Process is invoked iff the
\* gate is disabled or the buffer's peak amplitude is strictly greater than
\* the stored threshold, and Process gets the samples as they were delivered.
C15_GateDecision ==
    [][nCallbacks' # nCallbacks =>
          /\ (nProcess' # nProcess) <=> (~gateEnabled \/ PeakOf(cbIn') > gateThreshold)
          /\ (nProcess' # nProcess) => cbBuf' = cbIn']_vars

\* |num / den - k / RatioUnit| <= 1 / RatioUnit for the fraction <<num, den>>,
\* that is |RatioUnit * num - k * den| <= den, computed without leaving the
\* 32-bit integers: with den = q * RatioUnit + r and e = num - k * q the left
\* side is |RatioUnit * e - k * r|.
WithinTolerance(frac, k) ==
    LET q == frac[2] \div RatioUnit
        r == frac[2] % RatioUnit
        e == frac[1] - k * q
    IN  /\ frac[1] >= 0
        /\ e <= q + ((r + k * r) \div RatioUnit)
        /\ e >= -(q + ((r - k * r) \div RatioUnit))

\* C19: after any sequence of SetGateThreshold calls the stored threshold is
\* in 0 .. MaxInt32; a ratio below 0 stores 0, a ratio above 1 stores
\* MaxInt32, and GetGateThreshold returns the clamped ratio to within 1e-3.
C19_ThresholdClamped ==
    /\ gateThreshold >= 0 /\ gateThreshold <= MaxInt32
    /\ threshold[1] = "inf" =>
         gateThreshold = (IF threshold[2] < 0 THEN 0 ELSE MaxInt32)
    /\ threshold[1] = "num" =>
         /\ threshold[2] < 0 => gateThreshold = 0
         /\ threshold[2] > RatioUnit => gateThreshold = MaxInt32
         /\ WithinTolerance(GetGateThreshold, Clamp(threshold)[2])

\* |s| of an int32 s as a uint32 (2^31 for the lowest int32), and the order
\* of uint32 values.
Magnitude(s) == IF s[1] >= 32768 THEN Sub32(Zero32, s) ELSE s
Less32(a, b) == a[1] < b[1] \/ (a[1] = b[1] /\ a[2] < b[2])
\* The maximum of |s| over a buffer.
MaxMagnitude(buffer) ==
    IF buffer = <<>> THEN Zero32
    ELSE LET m == {Magnitude(buffer[i]) : i \in 1..Len(buffer)}
         IN  CHOOSE x \in m : \A y \in m : ~Less32(x, y)

\* C16: for every buffer of int32 samples, the branchless loop started with
\* peak 0 ends with the peak equal to the maximum of |s| over the buffer.
C16_PeakIsMaxAbs ==
    gdI > Len(gdBuffer) =>
        /\ gdMax[1] < 32768
        /\ gdMax = MaxMagnitude(gdBuffer)

\* C17: for every n > 0 of the argument type, IsPowerOfTwo of
\* NextPowerOfTwo(n) is true, and so for the 32-bit and the 64-bit pair.
C17_NextIsPowerOfTwo ==
    (p2Out # <<>> /\ Positive(p2Size)) => IsPowerOfTwo_Of(p2Fn, p2Out)

\* The order of non-negative integers of the same width.
LessW(a, b) ==
    \E i \in 1..Len(a) : a[i] < b[i] /\ \A j \in 1..(i - 1) : a[j] = b[j]
\* The positive powers of two of an integer type of n words.
PowersOfTwo(n) == {ShiftLeftOne(k, n) : k \in 0..(16 * n - 2)}

\* C18: NextPowerOfTwo(n) is 1 for every n <= 0 and the smallest power of two
\* >= n for every n > 0; it returns n for a power of two n, and IsPowerOfTwo(n)
\* is false for every n <= 0.
C18_SmallestPowerAtLeast ==
    (p2Out # <<>> /\ p2Fn[1] = "NextPowerOfTwo") =>
        /\ ~Positive(p2Size) => (p2Out = OneW(Len(p2Size)) /\ ~IsPowerOfTwoInt(p2Size))
        /\ Positive(p2Size) =>
             /\ p2Out \in PowersOfTwo(Len(p2Size))
             /\ ~LessW(p2Out, p2Size)
             /\ \A p \in PowersOfTwo(Len(p2Size)) : ~LessW(p, p2Size) => ~LessW(p, p2Out)
        /\ IsPowerOfTwoInt(p2Size) => p2Out = p2Size

\* C20: NewFFTProcessor returns an error and no processor when the FFT size is
\* not a positive power of two or the sample rate is <= 0, and a processor
\* with no error for every other input.
C20_NewFFTProcessorErrors ==
    nfRes # <<>> =>
        LET invalid == \/ ~(\E k \in 0..30 : nfSize = Pow2(k))
                       \/ (nfRate[1] # "nan" /\ nfRate[2] <= 0)
        IN  /\ invalid => (nfRes[1] = <<>> /\ nfRes[2] # "nil")
            /\ ~invalid => (nfRes[1] # <<>> /\ nfRes[2] = "nil")

\* C20 witness: a call with a power-of-two size and the sample rate 0 has
\* returned the sample-rate error.
C20_Witness ==
    /\ nfRes # <<>>
    /\ nfSize = 8
    /\ nfRate = <<"num", 0>>
    /\ nfRes[2] = "sample rate must be positive"

\* C21: NewEngine returns an error and no engine whenever frames_per_buffer is
\* not a power of two, input_channels < 1 or sample_rate <= 0.
C21_NewEngineRejectsInvalidConfig ==
    (/\ neRes # <<>>
     /\ \/ ~(\E k \in 0..30 : neConfig.framesPerBuffer = Pow2(k))
        \/ neConfig.inputChannels < 1
        \/ (neConfig.sampleRate[1] # "nan" /\ neConfig.sampleRate[2] <= 0))
        => (neRes[1] = <<>> /\ neRes[2] # "nil")

InBuild == {g \in Goroutines : gPc[g] \in {"fetch", "seqRead", "seqWrite", "pack", "send"}}
\* The goroutines that are building a packet they have not yet handed to Send.
Building == {g \in Goroutines : gPc[g] \in {"fetch", "seqRead", "seqWrite", "pack"}}

\* C3: at any time at most one publisher goroutine exists, so no two
\* goroutines are inside buildAndSendPacket at once.
C3_OneGoroutine ==
    /\ Cardinality(Alive) <= 1
    /\ Cardinality(InBuild) <= 1

\* C4: when a call to Stop has returned, every goroutine that existed when the
\* call began has exited, so none of them is still building a packet.
C4_StopReturnsAfterExit ==
    \A t \in PubCallers :
        (psOp[t] = "Stop" /\ psPc[t] = "ret") =>
            /\ psAlive[t] \cap Alive = {}
            /\ psAlive[t] \cap Building = {}

\* b comes after a in uint32 serial order: (b - a) mod 2^32 is in 1 .. 2^31 - 1.
Ahead(a, b) == Sub32(b, a) # Zero32 /\ Sub32(b, a)[1] < 32768

\* C5: the sequence numbers of the packets handed to Send within one
\* Start..Stop session are strictly increasing modulo 2^32 in hand-over order.
C5_SequenceIncreasing ==
    \A i, j \in 1..Len(sent) :
        (i < j /\ sent[i].session = sent[j].session) =>
            Ahead(PacketSequence(sent[i].pkt), PacketSequence(sent[j].pkt))

\* C6: a packet for FFT size n is 14 + 4*N bytes long with N = n/2 + 1, its
\* magnitude_count field (bytes 13-14, big-endian) is N, and 14 + 4 * the field
\* is the packet length.
C6_CountMatchesLength ==
    pkHeader # <<>> =>
        LET N == pkFftSize \div 2 + 1
            count == FromBigEndian(SubSeq(pkHeader, 13, 14))
        IN  /\ pkLen = 14 + 4 * N
            /\ count = N
            /\ 14 + 4 * count = pkLen

\* C7: the socket is closed at most once, and exactly once as soon as a Close
\* has returned; a Close that did not close the socket returns nil; no datagram
\* write is started on a closed socket or a nil connection.
C7_SocketClosedOnce ==
    /\ sockCloses <= 1
    /\ closeReturned => (sockCloses = 1 /\ ~sockOpen)
    /\ \A c \in SndCallers :
          (sdOp[c] = "Close" /\ sdPc[c] \in {"closeRet", "ret"} /\ sdErr[c] = None)
              => sdRes[c] = "nil"
    /\ sockBadWrites = 0

\* C7 witness: after datagrams were written and the socket was closed by one
\* Close, a second Close returns nil without having touched the socket.
C7_Witness ==
    /\ closeReturned
    /\ sockWrites > 0
    /\ \E c \in SndCallers :
          sdOp[c] = "Close" /\ sdPc[c] = "closeRet" /\ sdErr[c] = None

\* C8: a Send begun after a Close returned returns the "sender is closed"
\* error and writes nothing; a Send that returns that error wrote nothing; any
\* other Send made exactly one datagram write and returns nil iff the write
\* succeeded.
C8_SendOutcome ==
    \A c \in SndCallers :
        (sdOp[c] = "Send" /\ sdPc[c] = "ret") =>
            /\ sdAfterClose[c] => sdRes[c] = SenderClosedErr
            /\ sdRes[c] = SenderClosedErr => sdWrote[c] = 0
            /\ sdRes[c] # SenderClosedErr =>
                  /\ sdWrote[c] = 1
                  /\ (sdRes[c] = "nil") <=> (sdErr[c] = "ok")

\* C8 witness: one Send has returned the closed error after a Close returned
\* and another Send has returned the error of a refused write.
C8_Witness ==
    /\ \E c \in SndCallers :
          /\ sdOp[c] = "Send" /\ sdPc[c] = "ret"
          /\ sdAfterClose[c] /\ sdRes[c] = SenderClosedErr
    /\ \E c \in SndCallers :
          /\ sdOp[c] = "Send" /\ sdPc[c] = "ret"
          /\ sdErr[c] = "refused" /\ sdRes[c] # "nil"

\* C9: a StartInputStream that finds the engine active returns nil and changes
\* neither the engine, the host streams, the publisher, the sender nor the FFT
\* processor; and at most one host stream is open at any time.
C9_StartIsIdempotent ==
    /\ [][\A e \in EngThreads :
            (ePc[e] = "startLock" /\ ePc'[e] # "startLock" /\ streamActive) =>
                /\ ePc'[e] = "ret"
                /\ eRes'[e] = "nil"
                /\ UNCHANGED <<engState, pubVars, sndVars, fftVars>>]_vars
    /\ [](Cardinality(hostOpen) <= 1)

\* C9 witness: StartInputStream has returned nil on an engine it found active,
\* with the one host stream open and the one publisher goroutine running.
C9_Witness ==
    /\ \E e \in EngThreads :
          /\ eOp[e] = "StartInputStream" /\ ePc[e] = "ret"
          /\ eActive[e] /\ eRes[e] = "nil"
    /\ Cardinality(hostOpen) = 1
    /\ Cardinality(Alive) = 1
    /\ nStreams = 1 /\ nTickers = 1

\* C10: no packet is handed to Send after stream.Stop was called, and while
\* StopInputStream is calling stream.Stop or stream.Close no publisher
\* goroutine is alive.
C10_PublisherStoppedBeforeStream ==
    /\ \A i \in 1..Len(sent) : ~sent[i].stopped
    /\ \A e \in EngThreads : ePc[e] = "hostClose" => Alive = {}

\* The names of the parts a Close call has finished, in order.
LogNames(e) == [i \in 1..Len(eLog[e]) |-> eLog[e][i].what]
\* The first error in a log of finished parts, "nil" if there is none.
FirstErr(log) ==
    IF \A i \in 1..Len(log) : log[i].err = "nil" THEN "nil"
    ELSE log[CHOOSE i \in 1..Len(log) :
                /\ log[i].err # "nil"
                /\ \A j \in 1..(i - 1) : log[j].err = "nil"].err
IsPrefix(a, b) == Len(a) <= Len(b) /\ SubSeq(b, 1, Len(a)) = a

\* C11: a Close call finishes StopInputStream first and then closes the
\* publisher, the sender and the FFT processor, each exactly once and in this
\* order (the reverse of their registration).
C11_CloseOrder ==
    \A e \in EngThreads :
        eOp[e] = "Close" =>
            /\ IsPrefix(LogNames(e), <<"StopInputStream", "publisher", "sender", "fft">>)
            /\ ePc[e] = "ret" =>
                  LogNames(e) = <<"StopInputStream", "publisher", "sender", "fft">>

\* C11 witness: a Close call on an active engine has returned after stopping
\* the stream and closing the three components.
C11_Witness ==
    \E e \in EngThreads :
        /\ eOp[e] = "Close" /\ ePc[e] = "ret" /\ eActive[e]
        /\ Len(eLog[e]) = 4
        /\ sndClosed /\ ~streamActive

\* C12: a Close call that returns has closed every closable, whatever failed
\* before, and returns the first error in execution order.
C12_CloseFirstError ==
    \A e \in EngThreads :
        (eOp[e] = "Close" /\ ePc[e] = "ret") =>
            /\ Len(eLog[e]) = 1 + Len(Closables)
            /\ eRes[e] = FirstErr(eLog[e])

\* C12 witness: a Close call has returned the error of StopInputStream after
\* the sender's Close failed as well.
C12_Witness ==
    \E e \in EngThreads :
        /\ eOp[e] = "Close" /\ ePc[e] = "ret"
        /\ Len(eLog[e]) = 4
        /\ eLog[e][1].err = "err"
        /\ eLog[e][3].err = "failed to close UDP connection"
        /\ eRes[e] = "err"

\* C13: a StartInputStream call that began after a Close call had returned
\* opens no host stream and does not start the publisher.
C13_NoStartAfterClose ==
    \A e \in EngThreads :
        (eAfterClose[e] /\ eOp[e] = "StartInputStream") =>
            /\ ePc[e] \notin {"hostStart", "pubStart"}
            /\ ePc[e] = "ret" => (eRes[e] # "nil" \/ ~streamActive)

\* ---------------------------------------------------------------- C23
\* The first n samples of a buffer, followed by zeros when it has fewer.
PadTo(buf, n) == [i \in 1..n |-> IF i <= Len(buf) THEN buf[i] ELSE 0]
\* The magnitudes of a whole frame x of fftSize samples.
MagnitudesOf(x) ==
    [k \in 1..MagnitudeSize(fftSize) |->
        CAbs(Coefficients([i \in 1..fftSize |-> x[i] * window[i]])[k])]

\* C23: whatever the lengths of the buffers handed to Process (empty, shorter
\* than, equal to or longer than fftSize), the workspace keeps its lengths
\* (input fftSize; spectrum and magnitude fftSize/2 + 1), and a completed call
\* leaves the magnitudes of its buffer cut to fftSize samples and padded with
\* zeros: missing positions count as zero, samples at index >= fftSize and
\* earlier calls have no effect.
C23_ProcessAnyLength ==
    /\ Len(wsInput) = fftSize
    /\ Len(fftOutput) = MagnitudeSize(fftSize)
    /\ Len(magnitude) = MagnitudeSize(fftSize)
    /\ (cbPc = "idle" /\ nProcess > 0) =>
           magnitude = MagnitudesOf(PadTo(cbBuf, fftSize))
\* A second call with a short, non-silent buffer has completed after a call
\* whose frame was different.
C23_Witness ==
    /\ cbPc = "idle"
    /\ nProcess > 1
    /\ cbBuf # <<>>
    /\ Len(cbBuf) < fftSize
    /\ magnitude # Zeros(MagnitudeSize(fftSize))
    /\ \E m \in frames : m # magnitude /\ m # Zeros(MagnitudeSize(fftSize))

\* ---------------------------------------------------------------- C24
\* C24: with the sender's flag set, a Send whose write was refused writes no
\* log entry and still returns the error; a Send whose write failed in any
\* other way writes an entry at error level and returns the error, whatever
\* the flag.
C24_RefusedSuppressedWhenFlagSet ==
    \A c \in SndCallers :
        (sdPc[c] = "ret" /\ sdOp[c] = "Send") =>
            /\ (sdErr[c] = "refused" /\ sndDebug) =>
                   (sdLog[c] = {} /\ sdRes[c] = SendResult("refused"))
            /\ sdErr[c] = "failed" =>
                   (sdLog[c] = {LevelError} /\ sdRes[c] = SendResult("failed"))

\* ---------------------------------------------------------------- C25
\* C25: once Stop has closed a goroutine's done channel and stopped its
\* ticker, the goroutine takes no tick it had not taken before (so that it
\* hands at most one more packet to the sender, the one of the tick it is
\* handling) and then exits, and under fair scheduling every Stop call that
\* waits for the goroutine returns.
C25_ShutdownWithinOneTick ==
    /\ [][\A g \in Goroutines :
            (gPc[g] = "select" /\ Signalled(g)) => gPc'[g] \in {"select", "exited"}]_vars
    /\ \A g \in Goroutines :
          (gPc[g] \notin {"none", "exited"} /\ Signalled(g)) ~> (gPc[g] = "exited")
    /\ \A t \in PubThreads : (psPc[t] = "stopWait") ~> (psPc[t] = "ret")

\* ---------------------------------------------------------------- C27
\* C27: StopInputStream on an active engine reaches stream.Close only after
\* the publisher's Stop and stream.Stop have returned, and the step that
\* finishes it leaves streamActive = false and stream = nil with the host
\* stream closed and streamMu released, whether stream.Stop or stream.Close
\* failed or not; it returns the error of stream.Stop if that failed, else the
\* error of stream.Close if that failed, else nil.  A StartInputStream that
\* then opens a stream holds a stream no earlier call has held.
C27_StopAlwaysClears ==
    /\ [](\A e \in EngThreads :
            /\ ePc[e] = "hostClose" =>
                  (eActive[e] /\ hostStopped /\ psPc[e] = "idle" /\ streamMu = e
                   /\ eRes[e] \in {"nil", "err"})
            /\ ePc[e] = "hostStart" =>
                  (stream = nStreams /\ stream \in hostOpen /\ ~streamActive))
    /\ [][\A e \in EngThreads :
            (ePc[e] = "hostClose" /\ ePc'[e] # "hostClose") =>
                /\ ~streamActive' /\ stream' = 0
                /\ stream \notin hostOpen'
                /\ streamMu' = Nobody
                /\ eRes'[e] \in (IF eRes[e] = "err" THEN {"err"}
                                                   ELSE {"nil", StreamCloseErr})]_vars
\* A StopInputStream call has returned the error of stream.Close, and a later
\* StartInputStream has opened the second stream.
C27_Witness ==
    \E e1, e2 \in EngThreads :
        /\ eOp[e1] = "StopInputStream" /\ ePc[e1] = "ret" /\ eActive[e1]
        /\ eRes[e1] = StreamCloseErr
        /\ eOp[e2] = "StartInputStream" /\ ePc[e2] = "hostStart"
        /\ stream = 2

\* ---------------------------------------------------------------- C29
\* The position in sent of the packet goroutine g handed to Send last.
LastSentBy(g) ==
    CHOOSE i \in 1..Len(sent) :
        sent[i].g = g /\ \A j \in (i + 1)..Len(sent) : sent[j].g # g

\* The Send call of goroutine g has returned an error to buildAndSendPacket.
SendFailed(g) == gPc[g] = "send" /\ sdPc[g] = "ret" /\ sdRes[g] # "nil"

\* C29: a goroutine whose Send has failed (a refused or failed write, or a
\* closed sender) goes back to its select and exits only once Stop has closed
\* its done channel, and no packet handed to Send after the failed one carries
\* the failed packet's sequence number.
C29_FailedSendKeepsGoing ==
    /\ [](\A g \in Goroutines :
            /\ gPc[g] = "exited" => gLocal[g].doneChan \in closedChans
            /\ SendFailed(g) =>
                  \A j \in (LastSentBy(g) + 1)..Len(sent) :
                      PacketSequence(sent[j].pkt) # PacketSequence(sent[LastSentBy(g)].pkt))
    /\ [][\A g \in Goroutines :
            (SendFailed(g) /\ gPc'[g] # "send") => gPc'[g] = "select"]_vars

\* ---------------------------------------------------------------- C30
\* The number of the Process call whose magnitudes a payload holds (0: the
\* magnitudes of the workspace before any call).
FrameNumber(payload) ==
    CHOOSE k \in 0..MaxFrames :
        payload = [i \in 1..MagnitudeSize(fftSize) |-> F32(MagnitudesOf(LevelBuffer(k))[i])]

C31_ChainFixedWhileActive ==
    [][/\ streamActive => (processors' = processors /\ closables' = closables)
       /\ (nCallbacks' # nCallbacks) =>
             /\ cbChain' = processors'
             /\ nCallbacks > 0 => cbChain' = cbChain]_vars

\* C32: once the peak loop has run over a buffer, the buffer passes the test
\* peak > threshold if the threshold was set with the ratio 0 (the all-zero
\* buffer included), and does not pass it if the threshold was set with the
\* ratio 1.
C32_OpenAtZeroClosedAtOne ==
    (Len(gdBuffer) >= 1 /\ gdI > Len(gdBuffer)) =>
        /\ threshold = <<"num", 0>> => Triggered
        /\ threshold = <<"num", RatioUnit>> => ~Triggered

\* C33: between the calls of a sequence of StartRecording and StopRecording
\* calls, whatever they returned, isRecording is 1 exactly when the encoder is
\* non-nil and exactly when the output file is non-nil; a StartRecording that
\* returns an error and a StopRecording made while not recording (which
\* returns nil) change none of the three.
C33_RecordingStateConsistent ==
    /\ [](rcPc \in {"idle", "ret"} =>
            /\ isRecording = 1 <=> wavEncoder # 0
            /\ isRecording = 1 <=> outputFile # 0)
    /\ [][(rcPc' = "ret" /\ rcPc # "ret" /\ rcOp' = "StartRecording" /\ rcRes' # "nil")
             => UNCHANGED <<isRecording, wavEncoder, outputFile>>]_vars
    /\ [][(rcPc = "idle" /\ rcOp' = "StopRecording" /\ isRecording = 0)
             => (rcRes' = "nil" /\ rcPc' = "ret"
                 /\ UNCHANGED <<isRecording, wavEncoder, outputFile>>)]_vars

\* A StartInputStream call returns the error of OpenStream or of stream.Start.
StartFails(e) ==
    /\ ePc[e] \in {"open", "hostStart"}
    /\ ePc'[e] = "ret"
    /\ eRes'[e] # "nil"

\* C34: the step in which StartInputStream fails, at OpenStream or at
\* stream.Start, returns an error and leaves the engine inactive with no
\* stream, no host stream open and the mutex free, without touching the
\* publisher; and whenever the engine is inactive with the mutex free it is in
\* that state, so that a later StartInputStream opens a stream again.
C34_FailedStartLeavesNothing ==
    /\ [][\A e \in EngThreads :
            StartFails(e) =>
                /\ eOp[e] = "StartInputStream"
                /\ ~streamActive'
                /\ stream' = 0
                /\ hostOpen' = {}
                /\ streamMu' = Nobody
                /\ UNCHANGED pubVars]_vars
    /\ []((streamMu = Nobody /\ ~streamActive) => (stream = 0 /\ hostOpen = {}))

\* C34 witness: one thread's StartInputStream has failed at stream.Start after
\* it had opened the first host stream, and another thread's call made after
\* it has opened and started the second one and returned nil.
C34_Witness ==
    /\ nStreams = 2
    /\ streamActive /\ stream = 2 /\ hostOpen = {2}
    /\ \E e1, e2 \in EngThreads :
          /\ eOp[e1] = "StartInputStream" /\ ePc[e1] = "ret" /\ eRes[e1] = "err"
          /\ eOp[e2] = "StartInputStream" /\ ePc[e2] = "ret" /\ eRes[e2] = "nil"

\* C35: whatever the interleaving of StartInputStream, StopInputStream and
\* Close calls, a publisher goroutine is alive only while streamActive is
\* true.
C35_PublisherAliveOnlyWhileActive == Alive # {} => streamActive

\* C36: whatever the interleaving of StartInputStream, StopInputStream and
\* Close calls, no publisher goroutine is alive while Engine.Close is closing
\* the sender, and no goroutine begins a Send after the sender's Close has
\* returned.
C36_PublisherExitedBeforeSenderClosed ==
    /\ \A e \in EngThreads : ePc[e] = "closeSndWait" => Alive = {}
    /\ \A g \in Goroutines : sdOp[g] = "Send" => ~sdAfterClose[g]

\* C37: under fair scheduling every StopInputStream call and every Close call
\* that has begun returns.
C37_StopAndCloseReturn ==
    \A e \in EngThreads :
        (eOp[e] \in {"StopInputStream", "Close"}) ~> (ePc[e] = "ret")

\* C38: when a thread's Stop has returned and it calls Start again, Start makes
\* a ticker and a done channel that were never stopped or closed and spawns a
\* goroutine that did not exist and waits on those two, no step of Start
\* touches p.sequenceNum, and
\* the sequence numbers of all packets handed to Send, over all sessions of the
\* publisher, are strictly increasing modulo 2^32 in hand-over order.
C38_RestartContinuesSequence ==
    /\ [][\A t \in PubThreads :
            (psOp[t] = "Start" /\ psPc'[t] # psPc[t]) =>
                /\ sequenceNum' = sequenceNum
                /\ (psPc[t] = "startLock" /\ psPc'[t] = "startAdd") =>
                      /\ ticker' \notin stoppedTickers \cup {0, ticker}
                      /\ doneChan' \notin closedChans \cup {0, doneChan}
                      /\ psLocal'[t] = [ticker |-> ticker', doneChan |-> doneChan']
                /\ psPc[t] = "startGo" =>
                      \E g \in Goroutines :
                          /\ gPc[g] = "none"
                          /\ gPc'[g] = "select"
                          /\ gLocal'[g] = psLocal[t]]_vars
    /\ [](\A i, j \in 1..Len(sent) :
            i < j => Ahead(PacketSequence(sent[i].pkt), PacketSequence(sent[j].pkt)))

\* ---------------------------------------------------------------- C39
\* A Close call that began after another Close call had returned.
SecondClose(e) == eOp[e] = "Close" /\ eAfterClose[e]
\* No socket is closed a second time.
SocketClosedOnce == sockCloses <= 1
\* stream.Close is called on an open host stream only.
StreamClosedOnce ==
    \A e \in EngThreads :
        (ePc[e] = "hostClose" /\ ePc'[e] # "hostClose") =>
            (stream # 0 /\ stream \in hostOpen)
\* A done channel is closed and a ticker is stopped once only.
GoroutineStoppedOnce ==
    \A t \in PubCallers :
        /\ (psPc[t] = "stopLock" /\ psPc'[t] = "stopTicker") =>
              (doneChan # 0 /\ doneChan \notin closedChans)
        /\ psPc[t] = "stopTicker" /\ psPc'[t] # "stopTicker" =>
              (ticker # 0 /\ ticker \notin stoppedTickers)

\* C39: a second Engine.Close returns nil, and no socket, host stream, done
\* channel or ticker is closed or stopped a second time.
C39_SecondCloseSafe ==
    /\ [](\A e \in EngThreads : (SecondClose(e) /\ ePc[e] = "ret") => eRes[e] = "nil")
    /\ []SocketClosedOnce
    /\ [][StreamClosedOnce /\ GoroutineStoppedOnce]_vars

====
